---- MODULE Spec2Model ----
(***************************************************************************)
(* Camera resource orchestration of the Pi_cam repository.                 *)
(*                                                                         *)
(* Part I   examples/dng_camera_led.py : the supervised single DNG capture *)
(*          (camera_state, initialize_camera, capture_single_dng, its      *)
(*          worker thread, emergency cleanup and the Flask routes).        *)
(* Part II  Main/camera_viewfinder.py  : the viewfinder main loop and the  *)
(*          shutter handler.                                               *)
(* Part III Pi_cam_raw.py              : the /fast_capture route.          *)
(*                                                                         *)
(* The camera driver (picamera2) is the environment: each of its calls may *)
(* return, raise, or (capture_file) not return at all.                     *)
(***************************************************************************)
EXTENDS Integers, Sequences, FiniteSets, TLC

(***************************************************************************)
(* Bounds of the model                                                     *)
(***************************************************************************)
\* request threads of the Flask server (werkzeug serves each request on its own thread)
NumClients == 2
\* Picamera2 objects that can be constructed in one run
MaxHandles == 2
\* capture worker threads that can be started in one run
MaxWorkers == 2
\* largest photo number on disk when the program starts
MaxInitFile == 2
\* the photo counter is not advanced past this value
MaxCounter == 3
\* gain levels between min_gain and max_gain
MaxGainLevel == 2
\* run reads the metadata every fifth frame
MetadataEvery == 5
\* photos requested in a run in which no call fails
MaxBurst == 12
\* photos requested in a run in which calls can fail
MaxFaultyItems == 2
\* the capacity the processing queue is meant to have
QueueCapacity == 10

None == 0
Main == 0
Clients == 1..NumClients
Procs == {Main} \cup Clients
Handles == 1..MaxHandles
Workers == 1..MaxWorkers

VARIABLES
    \* ---- dng_camera_led.py: camera_state and the dng folder
    picam2,         \* camera_state['picam2']: None or a handle
    initialized,    \* camera_state['initialized']
    capturing,      \* camera_state['capturing']
    photo_counter,  \* camera_state['photo_counter']
    dngFiles,       \* numbers n with dng/photo<n>.dng on disk
    hstate,         \* per Picamera2 object: "free", "running", "stopped", "closed"
    \* ---- per thread: position and locals
    pc,             \* position of main and of each request thread
    req,            \* what the thread is serving: "startup", "capture", "emergency"
    hnd,            \* local picam2 of capture_single_dng / initialize_camera
    photo_num,      \* local photo_num of capture_single_dng
    cur,            \* the worker (and result_container) of the running capture
    result,         \* the result dict of capture_single_dng
    restart,        \* what the route added: "none", "camera_restarted", "camera_restart_failed"
    \* ---- capture worker threads (_capture_thread) and their result_container
    wstate,         \* "free", "spawned", "capturing", "completed", "error"
    wh,             \* picam2_instance passed to the worker
    wnum,           \* number in the filename passed to the worker
    \* ---- what the callers saw
    assigned,       \* photo_number of the successful results since the last initialize
    \* ---- camera_viewfinder.py: CameraViewfinder and the photo directory
    vf_capturing,   \* self.capturing
    photos_taken,   \* self.photos_taken
    jpgFiles,       \* numbers n with PICAM_<n>.jpg in PHOTO_DIR
    frame_count,    \* self.frame_count, modulo MetadataEvery
    current_gain,   \* self.current_gain, as a gain level
    focus_locked,   \* self.focus_locked
    cam_running,    \* self.camera is started
    cam_mode,       \* configuration of self.camera: "preview" or "highres"
    dev_gain,       \* AnalogueGain the camera runs with (0: none set since configure)
    dev_afmode,     \* AfMode the camera runs with (-1: none set since configure)
    pcL,            \* position of the main loop (run)
    pcS,            \* position of the shutter handler (on_shutter_pressed)
    pcF,            \* position of the focus handlers (on_focus_pressed/released)
    gallery_mode,   \* self.gallery_mode: the display shows stored photos
    gallery_photos, \* self.gallery_photos: the photo numbers listed when the gallery opened
    gallery_index,  \* self.gallery_index: 0-based position in gallery_photos
    gallery_delete_confirm, \* self.gallery_delete_confirm: DOWN was pressed once
    s_photo_num,    \* local photo_num of on_shutter_pressed
    s_wrote,        \* capture_file of the running handler has written its file
    \* ---- Pi_cam_raw.py: the /fast_capture route and the photo folders
    raw_jpg,        \* numbers n with photos/jpg/photo<n>.jpg
    raw_dng,        \* numbers n with photos/dng/photo<n>.dng
    raw_pc,         \* position of each request thread
    raw_photo_num,  \* local photo_num of simple_dng_capture
    raw_failed,     \* an exception is propagating out of the try block
    \* ---- Pi_cam_raw.py: fast_capture_photo, the processing thread, shutdown
    env_faults,     \* whether calls on the camera and the disk can fail in this run
    raw_camera_lock,\* camera_lock: the thread holding it, or None
    raw_queue,      \* raw_queue: photo numbers of the queued items, oldest first
    processing_active, \* processing_active
    enq_log,        \* what was put in the queue, in the order of the puts
    proc_log,       \* photo numbers in the order the processing thread took them
    raw_npy,        \* numbers n with photos/raw/photo<n>.npy
    raw_npz,        \* numbers n with photos/dng/photo<n>.npz
    raw_processed,  \* numbers n with photos/processed/photo<n>_fuji.png
    proc_errors,    \* what the processing thread reported as failed
    fq_pc,          \* position of each thread in fast_capture_photo
    fq_photo_num,   \* local photo_num of fast_capture_photo
    fq_failed,      \* an exception is propagating out of the inner try block
    fq_result,      \* the dict fast_capture_photo returns
    cons_pc,        \* position of the processing thread
    cons_item,      \* photo number of the item it is processing
    m_pc,           \* position of the main thread
    \* ---- working_code/Pi_cam.py: the capture routes
    camera_lock,    \* camera_lock: the request thread holding it, or None
    pi_running,     \* picam2 is started
    pi_mode,        \* configuration of picam2: "normal", "highrez" or "dng"
    pi_files,       \* per photo type, the numbers of the files in its folder
    pi_pc,          \* position of each request thread
    pi_type,        \* the photo type a request asks for
    pi_photo_num,   \* local photo_num of the route
    pi_result,      \* the response a request has built
    \* ---- examples/basic_camera.py: the /fast_capture route
    bc_dng,         \* numbers n with photos/dng/photo<n>.dng
    bc_writers,     \* numbers whose writer thread has not written its file yet
    bc_pc,          \* position of each request thread
    bc_photo_num,   \* local photo_num of ultra_fast_dng_capture
    bc_request,     \* the capture request r of the call: "none", "held", "released"
    bc_result       \* the dict the call returns: "none", "success", "error"

ledVars == <<picam2, initialized, capturing, photo_counter, dngFiles, hstate,
             pc, req, hnd, photo_num, cur, result, restart,
             wstate, wh, wnum, assigned>>

galleryVars == <<gallery_mode, gallery_photos, gallery_index, gallery_delete_confirm>>

vfVars == <<vf_capturing, photos_taken, jpgFiles, frame_count, current_gain,
            focus_locked, cam_running, cam_mode, dev_gain, dev_afmode,
            pcL, pcS, pcF, galleryVars, s_photo_num, s_wrote>>

simpleVars == <<raw_pc, raw_photo_num, raw_failed>>

rqVars == <<env_faults, raw_camera_lock, raw_queue, processing_active, enq_log,
            proc_log, raw_npy, raw_npz, raw_processed, proc_errors, fq_pc, fq_photo_num,
            fq_failed, fq_result, cons_pc, cons_item, m_pc>>

rawVars == <<raw_jpg, raw_dng, simpleVars, rqVars>>

piVars == <<camera_lock, pi_running, pi_mode, pi_files, pi_pc, pi_type,
            pi_photo_num, pi_result>>

bcVars == <<bc_dng, bc_writers, bc_pc, bc_photo_num, bc_request, bc_result>>

vars == <<ledVars, vfVars, rawVars, piVars, bcVars>>

\* each program runs on its own: a step of one leaves the others' state alone
LedOnly == UNCHANGED <<vfVars, rawVars, piVars, bcVars>>
VfOnly  == UNCHANGED <<ledVars, rawVars, piVars, bcVars>>
RawOnly == UNCHANGED <<ledVars, vfVars, piVars, bcVars>>
PiOnly  == UNCHANGED <<ledVars, vfVars, rawVars, bcVars>>
BcOnly  == UNCHANGED <<ledVars, vfVars, rawVars, piVars>>

(***************************************************************************)
(* Helpers                                                                 *)
(***************************************************************************)
RECURSIVE MaxOf(_)
MaxOf(S) == IF S = {} THEN 0
            ELSE LET x == CHOOSE y \in S : TRUE
                     m == MaxOf(S \ {x})
                 IN IF x > m THEN x ELSE m

MinOf(S) == CHOOSE x \in S : \A y \in S : x <= y

\* the result dicts of capture_single_dng
Res(s, e, rr, n) == [success |-> s, error |-> e, restart_required |-> rr, photo_number |-> n]
NoResult         == Res(FALSE, "none", FALSE, 0)
ResNotInit       == Res(FALSE, "Camera is not initialized", FALSE, 0)
ResBusy          == Res(FALSE, "Already capturing", FALSE, 0)
ResFailedToStart == Res(FALSE, "Capture failed to start", FALSE, 0)
ResTimedOut      == Res(FALSE, "Capture timed out. Camera has been reset.", TRUE, 0)
ResFileMissing   == Res(FALSE, "Capture completed but file not found", FALSE, 0)
ResException     == Res(FALSE, "exception", FALSE, 0)
ResSuccess(n)    == Res(TRUE, "", FALSE, n)

\* result_container of worker w, and Thread.is_alive()
Started(w)   == wstate[w] \in {"capturing", "completed", "error"}
Completed(w) == wstate[w] = "completed"
IsAlive(w)   == wstate[w] \in {"spawned", "capturing"}

\* get_dng_files(): the photo*.dng files of the dng folder
get_dng_files == dngFiles

FreeHandles == {h \in Handles : hstate[h] = "free"}
FreeWorkers == {w \in Workers : wstate[w] = "free"}

(***************************************************************************)
(* Part I: dng_camera_led.py                                               *)
(***************************************************************************)
\* the state at module load, with the dng folder holding one of `folders`
LedInitFrom(folders) ==
    /\ picam2 = None
    /\ initialized = FALSE
    /\ capturing = FALSE
    /\ photo_counter = 0
    /\ dngFiles \in folders
    /\ hstate = [h \in Handles |-> "free"]
    /\ pc = [p \in Procs |-> IF p = Main THEN "init_chk" ELSE "idle"]
    /\ req = [p \in Procs |-> IF p = Main THEN "startup" ELSE "none"]
    /\ hnd = [p \in Procs |-> None]
    /\ photo_num = [p \in Procs |-> 0]
    /\ cur = [p \in Procs |-> None]
    /\ result = [p \in Procs |-> NoResult]
    /\ restart = [p \in Procs |-> "none"]
    /\ wstate = [w \in Workers |-> "free"]
    /\ wh = [w \in Workers |-> None]
    /\ wnum = [w \in Workers |-> 0]
    /\ assigned = <<>>

\* ---- initialize_camera ------------------------------------------------

\* where initialize_camera returns to, with its return value
InitializeReturn(p, value) ==
    IF req[p] = "startup"
    THEN /\ pc' = [pc EXCEPT ![p] = IF value THEN "serving" ELSE "exit"]
         /\ restart' = restart
    ELSE /\ pc' = [pc EXCEPT ![p] = "route_ret"]
         /\ restart' = [restart EXCEPT ![p] =
                IF req[p] = "capture"
                THEN (IF value THEN "camera_restarted" ELSE "camera_restart_failed")
                ELSE "none"]

\* if camera_state['initialized']: return True
InitializeCamera_Check(p) ==
    /\ LedOnly
    /\ pc[p] = "init_chk"
    /\ IF initialized
       THEN InitializeReturn(p, TRUE)
       ELSE /\ pc' = [pc EXCEPT ![p] = "init_open"]
            /\ restart' = restart
    /\ UNCHANGED <<picam2, initialized, capturing, photo_counter, dngFiles, hstate,
                   req, hnd, photo_num, cur, result, wstate, wh, wnum, assigned>>

\* Picamera2(), configure, set_controls, start, sleep(2); any of them may raise
InitializeCamera_Open(p) ==
    /\ LedOnly
    /\ pc[p] = "init_open"
    /\ \E outcome \in {"ok", "raise"} :
         IF outcome = "ok" /\ FreeHandles # {}
         THEN LET h == MinOf(FreeHandles) IN
              /\ hstate' = [hstate EXCEPT ![h] = "running"]
              /\ hnd' = [hnd EXCEPT ![p] = h]
              /\ pc' = [pc EXCEPT ![p] = "init_commit"]
              /\ restart' = restart
         ELSE /\ InitializeReturn(p, FALSE)
              /\ UNCHANGED <<hstate, hnd>>
    /\ UNCHANGED <<picam2, initialized, capturing, photo_counter, dngFiles,
                   req, photo_num, cur, result, wstate, wh, wnum, assigned>>

\* the photo counter a (re)initialisation starts from
CounterFromFiles(files) == Cardinality(files) + 1

\* camera_state['picam2'] = picam2; ['initialized'] = True; ['photo_counter'] = len(get_dng_files()) + 1
InitializeCamera_Commit(p) ==
    /\ LedOnly
    /\ pc[p] = "init_commit"
    /\ picam2' = hnd[p]
    /\ initialized' = TRUE
    /\ photo_counter' = CounterFromFiles(get_dng_files)
    /\ assigned' = <<>>
    /\ hnd' = [hnd EXCEPT ![p] = None]
    /\ InitializeReturn(p, TRUE)
    /\ UNCHANGED <<capturing, dngFiles, hstate, req, photo_num, cur, result,
                   wstate, wh, wnum>>

\* ---- _capture_thread ---------------------------------------------------

\* result_container['started'] = True, then the worker enters capture_file
CaptureThread_Start(w) ==
    /\ LedOnly
    /\ wstate[w] = "spawned"
    /\ wstate' = [wstate EXCEPT ![w] = "capturing"]
    /\ UNCHANGED <<picam2, initialized, capturing, photo_counter, dngFiles, hstate,
                   pc, req, hnd, photo_num, cur, result, restart, wh, wnum, assigned>>

\* picam2_instance.capture_file(filename, name="raw") returns or raises, and the
\* thread ends. It returns only on a running camera; "nofile" is a return that
\* left no file.
CaptureThread_CaptureFile(w) ==
    /\ LedOnly
    /\ wstate[w] = "capturing"
    /\ \E outcome \in {"ok", "nofile", "raise"} :
         LET returned == outcome # "raise" /\ wh[w] # None /\ hstate[wh[w]] = "running"
         IN /\ wstate' = [wstate EXCEPT ![w] = IF returned THEN "completed" ELSE "error"]
            /\ dngFiles' = IF returned /\ outcome = "ok" THEN dngFiles \cup {wnum[w]} ELSE dngFiles
    /\ wh' = [wh EXCEPT ![w] = None]
    /\ wnum' = [wnum EXCEPT ![w] = 0]
    /\ UNCHANGED <<picam2, initialized, capturing, photo_counter, hstate,
                   pc, req, hnd, photo_num, cur, result, restart, assigned>>

\* ---- the routes and capture_single_dng ---------------------------------

\* a POST /capture_single_dng arrives
CaptureRoute_Begin(t) ==
    /\ LedOnly
    /\ pc[Main] = "serving"
    /\ pc[t] = "idle"
    /\ photo_counter <= MaxCounter
    /\ pc' = [pc EXCEPT ![t] = "route_chk"]
    /\ req' = [req EXCEPT ![t] = "capture"]
    /\ UNCHANGED <<picam2, initialized, capturing, photo_counter, dngFiles, hstate,
                   hnd, photo_num, cur, result, restart, wstate, wh, wnum, assigned>>

\* route: if camera_state['capturing']: return 'Already capturing a photo'
CaptureRoute_Check(t) ==
    /\ LedOnly
    /\ pc[t] = "route_chk"
    /\ IF capturing
       THEN /\ result' = [result EXCEPT ![t] = ResBusy]
            /\ pc' = [pc EXCEPT ![t] = "route_ret"]
       ELSE /\ result' = result
            /\ pc' = [pc EXCEPT ![t] = "chk_init"]
    /\ UNCHANGED <<picam2, initialized, capturing, photo_counter, dngFiles, hstate,
                   req, hnd, photo_num, cur, restart, wstate, wh, wnum, assigned>>

\* if not camera_state['initialized']: return
CaptureSingleDng_CheckInitialized(t) ==
    /\ LedOnly
    /\ pc[t] = "chk_init"
    /\ IF ~initialized
       THEN /\ result' = [result EXCEPT ![t] = ResNotInit]
            /\ pc' = [pc EXCEPT ![t] = "route_after"]
       ELSE /\ result' = result
            /\ pc' = [pc EXCEPT ![t] = "chk_cap"]
    /\ UNCHANGED <<picam2, initialized, capturing, photo_counter, dngFiles, hstate,
                   req, hnd, photo_num, cur, restart, wstate, wh, wnum, assigned>>

\* if camera_state['capturing']: return
CaptureSingleDng_CheckCapturing(t) ==
    /\ LedOnly
    /\ pc[t] = "chk_cap"
    /\ IF capturing
       THEN /\ result' = [result EXCEPT ![t] = ResBusy]
            /\ pc' = [pc EXCEPT ![t] = "route_after"]
       ELSE /\ result' = result
            /\ pc' = [pc EXCEPT ![t] = "set_cap"]
    /\ UNCHANGED <<picam2, initialized, capturing, photo_counter, dngFiles, hstate,
                   req, hnd, photo_num, cur, restart, wstate, wh, wnum, assigned>>

\* camera_state['capturing'] = True
CaptureSingleDng_SetCapturing(t) ==
    /\ LedOnly
    /\ pc[t] = "set_cap"
    /\ capturing' = TRUE
    /\ pc' = [pc EXCEPT ![t] = "spawn"]
    /\ UNCHANGED <<picam2, initialized, photo_counter, dngFiles, hstate,
                   req, hnd, photo_num, cur, result, restart, wstate, wh, wnum, assigned>>

\* (a variant without the `except Exception` clause: the RuntimeError of
\* capture_thread.start() leaves the function, which builds no result)
CaptureSingleDng_Spawn_Escapes(t) ==
    /\ LedOnly
    /\ pc[t] = "spawn"
    /\ hnd' = [hnd EXCEPT ![t] = picam2]
    /\ photo_num' = [photo_num EXCEPT ![t] = photo_counter]
    /\ IF FreeWorkers # {}
       THEN LET w == MinOf(FreeWorkers) IN
            /\ wstate' = [wstate EXCEPT ![w] = "spawned"]
            /\ wh' = [wh EXCEPT ![w] = picam2]
            /\ wnum' = [wnum EXCEPT ![w] = photo_counter]
            /\ cur' = [cur EXCEPT ![t] = w]
            /\ pc' = [pc EXCEPT ![t] = "wait_start"]
       ELSE /\ pc' = [pc EXCEPT ![t] = "finally"]
            /\ UNCHANGED <<wstate, wh, wnum, cur>>
    /\ UNCHANGED <<picam2, initialized, capturing, photo_counter, dngFiles, hstate,
                   req, result, restart, assigned>>

\* picam2 = camera_state['picam2']; photo_num = camera_state['photo_counter'];
\* capture_thread.start()  (RuntimeError when no thread can be started)
CaptureSingleDng_Spawn(t) ==
    /\ LedOnly
    /\ pc[t] = "spawn"
    /\ hnd' = [hnd EXCEPT ![t] = picam2]
    /\ photo_num' = [photo_num EXCEPT ![t] = photo_counter]
    /\ IF FreeWorkers # {}
       THEN LET w == MinOf(FreeWorkers) IN
            /\ wstate' = [wstate EXCEPT ![w] = "spawned"]
            /\ wh' = [wh EXCEPT ![w] = picam2]
            /\ wnum' = [wnum EXCEPT ![w] = photo_counter]
            /\ cur' = [cur EXCEPT ![t] = w]
            /\ result' = result
            /\ pc' = [pc EXCEPT ![t] = "wait_start"]
       ELSE /\ result' = [result EXCEPT ![t] = ResException]
            /\ pc' = [pc EXCEPT ![t] = "finally"]
            /\ UNCHANGED <<wstate, wh, wnum, cur>>
    /\ UNCHANGED <<picam2, initialized, capturing, photo_counter, dngFiles, hstate,
                   req, restart, assigned>>

\* (a variant that forces the camera restart when the capture has not started)
CaptureSingleDng_WaitStart_Resets(t) ==
    /\ LedOnly
    /\ pc[t] = "wait_start"
    /\ IF Started(cur[t])
       THEN /\ result' = result
            /\ pc' = [pc EXCEPT ![t] = "join"]
            /\ UNCHANGED <<picam2, initialized>>
       ELSE /\ result' = [result EXCEPT ![t] = ResFailedToStart]
            /\ pc' = [pc EXCEPT ![t] = "finally"]
            /\ picam2' = None
            /\ initialized' = FALSE
    /\ UNCHANGED <<capturing, photo_counter, dngFiles, hstate,
                   req, hnd, photo_num, cur, restart, wstate, wh, wnum, assigned>>

\* the start_timeout loop has ended; if not result_container['started']: return
CaptureSingleDng_WaitStart(t) ==
    /\ LedOnly
    /\ pc[t] = "wait_start"
    /\ IF Started(cur[t])
       THEN /\ result' = result
            /\ pc' = [pc EXCEPT ![t] = "join"]
       ELSE /\ result' = [result EXCEPT ![t] = ResFailedToStart]
            /\ pc' = [pc EXCEPT ![t] = "finally"]
    /\ UNCHANGED <<picam2, initialized, capturing, photo_counter, dngFiles, hstate,
                   req, hnd, photo_num, cur, restart, wstate, wh, wnum, assigned>>

\* capture_thread.join(timeout) has returned;
\* if capture_thread.is_alive() or not result_container['completed']: force a restart
CaptureSingleDng_Join(t) ==
    /\ LedOnly
    /\ pc[t] = "join"
    /\ pc' = [pc EXCEPT ![t] =
          IF IsAlive(cur[t]) \/ ~Completed(cur[t]) THEN "cl_stop" ELSE "chk_file"]
    /\ UNCHANGED <<picam2, initialized, capturing, photo_counter, dngFiles, hstate,
                   req, hnd, photo_num, cur, result, restart, wstate, wh, wnum, assigned>>

\* camera_state['picam2'].stop(); an exception skips the rest of the cleanup
CaptureSingleDng_CleanupStop(t) ==
    /\ LedOnly
    /\ pc[t] = "cl_stop"
    /\ \E outcome \in {"ok", "raise"} :
         IF outcome = "ok" /\ picam2 # None /\ hstate[picam2] # "closed"
         THEN /\ hstate' = [hstate EXCEPT ![picam2] = "stopped"]
              /\ result' = result
              /\ pc' = [pc EXCEPT ![t] = "cl_close"]
         ELSE /\ hstate' = hstate
              /\ result' = [result EXCEPT ![t] = ResTimedOut]
              /\ pc' = [pc EXCEPT ![t] = "finally"]
    /\ UNCHANGED <<picam2, initialized, capturing, photo_counter, dngFiles,
                   req, hnd, photo_num, cur, restart, wstate, wh, wnum, assigned>>

\* camera_state['picam2'].close(); ['picam2'] = None; ['initialized'] = False;
\* then return the 'Capture timed out. Camera has been reset.' result
CaptureSingleDng_CleanupClose(t) ==
    /\ LedOnly
    /\ pc[t] = "cl_close"
    /\ \E outcome \in {"ok", "raise", "raise_closed"} :
         IF picam2 = None
         THEN UNCHANGED <<hstate, picam2, initialized>>
         ELSE IF outcome = "ok"
         THEN /\ hstate' = [hstate EXCEPT ![picam2] = "closed"]
              /\ picam2' = None
              /\ initialized' = FALSE
         ELSE /\ hstate' = IF outcome = "raise_closed"
                           THEN [hstate EXCEPT ![picam2] = "closed"] ELSE hstate
              /\ UNCHANGED <<picam2, initialized>>
    /\ result' = [result EXCEPT ![t] = ResTimedOut]
    /\ pc' = [pc EXCEPT ![t] = "finally"]
    /\ UNCHANGED <<capturing, photo_counter, dngFiles,
                   req, hnd, photo_num, cur, restart, wstate, wh, wnum, assigned>>

\* (variant) the counter advanced for every capture that ended, file or no file
CaptureSingleDng_CheckFile_CountAlways(t) ==
    /\ LedOnly
    /\ pc[t] = "chk_file"
    /\ photo_counter' = photo_counter + 1
    /\ IF photo_num[t] \in dngFiles
       THEN /\ result' = [result EXCEPT ![t] = ResSuccess(photo_num[t])]
            /\ assigned' = Append(assigned, photo_num[t])
       ELSE /\ result' = [result EXCEPT ![t] = ResFileMissing]
            /\ assigned' = assigned
    /\ pc' = [pc EXCEPT ![t] = "finally"]
    /\ UNCHANGED <<picam2, initialized, capturing, dngFiles, hstate,
                   req, hnd, photo_num, cur, restart, wstate, wh, wnum>>

\* if os.path.exists(filename): camera_state['photo_counter'] += 1; return success
\* else: return 'Capture completed but file not found'
CaptureSingleDng_CheckFile(t) ==
    /\ LedOnly
    /\ pc[t] = "chk_file"
    /\ IF photo_num[t] \in dngFiles
       THEN /\ photo_counter' = photo_counter + 1
            /\ result' = [result EXCEPT ![t] = ResSuccess(photo_num[t])]
            /\ assigned' = Append(assigned, photo_num[t])
       ELSE /\ result' = [result EXCEPT ![t] = ResFileMissing]
            /\ UNCHANGED <<photo_counter, assigned>>
    /\ pc' = [pc EXCEPT ![t] = "finally"]
    /\ UNCHANGED <<picam2, initialized, capturing, dngFiles, hstate,
                   req, hnd, photo_num, cur, restart, wstate, wh, wnum>>

\* (variant) the flag cleared on the success path only, not in a finally clause
CaptureSingleDng_Finally_SuccessOnly(t) ==
    /\ LedOnly
    /\ pc[t] = "finally"
    /\ capturing' = IF result[t].success THEN FALSE ELSE capturing
    /\ pc' = [pc EXCEPT ![t] = "route_after"]
    /\ UNCHANGED <<picam2, initialized, photo_counter, dngFiles, hstate,
                   req, hnd, photo_num, cur, result, restart, wstate, wh, wnum, assigned>>

\* finally: camera_state['capturing'] = False
CaptureSingleDng_Finally(t) ==
    /\ LedOnly
    /\ pc[t] = "finally"
    /\ capturing' = FALSE
    /\ pc' = [pc EXCEPT ![t] = "route_after"]
    /\ UNCHANGED <<picam2, initialized, photo_counter, dngFiles, hstate,
                   req, hnd, photo_num, cur, result, restart, wstate, wh, wnum, assigned>>

\* (a variant that returns the result without the automatic reinitialize)
CaptureRoute_After_NoReinit(t) ==
    /\ LedOnly
    /\ pc[t] = "route_after"
    /\ pc' = [pc EXCEPT ![t] = "route_ret"]
    /\ UNCHANGED <<picam2, initialized, capturing, photo_counter, dngFiles, hstate,
                   req, hnd, photo_num, cur, result, restart, wstate, wh, wnum, assigned>>

\* route: if not result['success'] and result.get('restart_required'): initialize_camera()
CaptureRoute_After(t) ==
    /\ LedOnly
    /\ pc[t] = "route_after"
    /\ pc' = [pc EXCEPT ![t] =
          IF ~result[t].success /\ result[t].restart_required THEN "init_chk" ELSE "route_ret"]
    /\ UNCHANGED <<picam2, initialized, capturing, photo_counter, dngFiles, hstate,
                   req, hnd, photo_num, cur, result, restart, wstate, wh, wnum, assigned>>

\* return jsonify(result): the request thread is free again
Route_Return(t) ==
    /\ LedOnly
    /\ pc[t] = "route_ret"
    /\ pc' = [pc EXCEPT ![t] = "idle"]
    /\ req' = [req EXCEPT ![t] = "none"]
    /\ hnd' = [hnd EXCEPT ![t] = None]
    /\ photo_num' = [photo_num EXCEPT ![t] = 0]
    /\ cur' = [cur EXCEPT ![t] = None]
    /\ result' = [result EXCEPT ![t] = NoResult]
    /\ restart' = [restart EXCEPT ![t] = "none"]
    /\ UNCHANGED <<picam2, initialized, capturing, photo_counter, dngFiles, hstate,
                   wstate, wh, wnum, assigned>>

\* ---- emergency_cleanup_route / emergency_memory_cleanup ----------------

\* a POST /emergency_cleanup arrives
EmergencyRoute_Begin(t) ==
    /\ LedOnly
    /\ pc[Main] = "serving"
    /\ pc[t] = "idle"
    /\ pc' = [pc EXCEPT ![t] = "em_chk"]
    /\ req' = [req EXCEPT ![t] = "emergency"]
    /\ UNCHANGED <<picam2, initialized, capturing, photo_counter, dngFiles, hstate,
                   hnd, photo_num, cur, result, restart, wstate, wh, wnum, assigned>>

\* if camera_state['picam2']:
EmergencyCleanup_Check(t) ==
    /\ LedOnly
    /\ pc[t] = "em_chk"
    /\ pc' = [pc EXCEPT ![t] = IF picam2 # None THEN "em_stop" ELSE "init_chk"]
    /\ UNCHANGED <<picam2, initialized, capturing, photo_counter, dngFiles, hstate,
                   req, hnd, photo_num, cur, result, restart, wstate, wh, wnum, assigned>>

\* camera_state['picam2'].stop(); an exception skips close and the two assignments
EmergencyCleanup_Stop(t) ==
    /\ LedOnly
    /\ pc[t] = "em_stop"
    /\ \E outcome \in {"ok", "raise"} :
         IF outcome = "ok" /\ picam2 # None /\ hstate[picam2] # "closed"
         THEN /\ hstate' = [hstate EXCEPT ![picam2] = "stopped"]
              /\ pc' = [pc EXCEPT ![t] = "em_close"]
         ELSE /\ hstate' = hstate
              /\ pc' = [pc EXCEPT ![t] = "init_chk"]
    /\ UNCHANGED <<picam2, initialized, capturing, photo_counter, dngFiles,
                   req, hnd, photo_num, cur, result, restart, wstate, wh, wnum, assigned>>

\* camera_state['picam2'].close(); ['picam2'] = None; ['initialized'] = False;
\* then the route calls initialize_camera()
EmergencyCleanup_Close(t) ==
    /\ LedOnly
    /\ pc[t] = "em_close"
    /\ \E outcome \in {"ok", "raise", "raise_closed"} :
         IF picam2 = None
         THEN UNCHANGED <<hstate, picam2, initialized>>
         ELSE IF outcome = "ok"
         THEN /\ hstate' = [hstate EXCEPT ![picam2] = "closed"]
              /\ picam2' = None
              /\ initialized' = FALSE
         ELSE /\ hstate' = IF outcome = "raise_closed"
                           THEN [hstate EXCEPT ![picam2] = "closed"] ELSE hstate
              /\ UNCHANGED <<picam2, initialized>>
    /\ pc' = [pc EXCEPT ![t] = "init_chk"]
    /\ UNCHANGED <<capturing, photo_counter, dngFiles,
                   req, hnd, photo_num, cur, result, restart, wstate, wh, wnum, assigned>>

\* ---- the program ---------------------------------------------------------
LedProcStep(p) ==
    \/ InitializeCamera_Check(p)
    \/ InitializeCamera_Open(p)
    \/ InitializeCamera_Commit(p)

LedClientStep(t) ==
    \/ CaptureRoute_Begin(t)
    \/ CaptureRoute_Check(t)
    \/ CaptureSingleDng_CheckInitialized(t)
    \/ CaptureSingleDng_CheckCapturing(t)
    \/ CaptureSingleDng_SetCapturing(t)
    \/ CaptureSingleDng_Spawn(t)
    \/ CaptureSingleDng_WaitStart(t)
    \/ CaptureSingleDng_Join(t)
    \/ CaptureSingleDng_CleanupStop(t)
    \/ CaptureSingleDng_CleanupClose(t)
    \/ CaptureSingleDng_CheckFile(t)
    \/ CaptureSingleDng_Finally(t)
    \/ CaptureRoute_After(t)
    \/ Route_Return(t)
    \/ EmergencyRoute_Begin(t)
    \/ EmergencyCleanup_Check(t)
    \/ EmergencyCleanup_Stop(t)
    \/ EmergencyCleanup_Close(t)

LedWorkerStep(w) ==
    \/ CaptureThread_Start(w)
    \/ CaptureThread_CaptureFile(w)

\* concurrent requests
LedNext ==
    \/ \E p \in Procs : LedProcStep(p)
    \/ \E t \in Clients : LedClientStep(t)
    \/ \E w \in Workers : LedWorkerStep(w)

\* one request at a time: a single client thread
LedSerialNext ==
    \/ \E p \in {Main, 1} : LedProcStep(p)
    \/ LedClientStep(1)
    \/ \E w \in Workers : LedWorkerStep(w)

(***************************************************************************)
(* Part II: camera_viewfinder.py                                           *)
(* The main loop (run) and the shutter handler (on_shutter_pressed), which *)
(* gpiozero runs on its own thread.  Every camera call either returns or   *)
(* raises.                                                                 *)
(***************************************************************************)
GainLevels == 1..MaxGainLevel

\* positions of run at which the next statement is a call on self.camera
LoopCameraLocs == {"lp_frame", "lp_meta", "lp_gain"}

\* len(list(PHOTO_DIR.glob("PICAM_*.jpg")))
count_existing_photos == Cardinality(jpgFiles)

\* the state when __init__ has returned, the photo directory holding one of `dirs`
VfInitFrom(dirs) ==
    /\ jpgFiles \in dirs
    /\ photos_taken = count_existing_photos
    /\ vf_capturing = FALSE
    /\ frame_count = 0
    /\ current_gain = 1
    /\ focus_locked = FALSE
    /\ cam_running = TRUE
    /\ cam_mode = "preview"
    /\ dev_gain = 1
    /\ dev_afmode = -1
    /\ pcL = "lp_top"
    /\ pcS = "sh_idle"
    /\ pcF = "f_up"
    /\ gallery_mode = FALSE
    /\ gallery_photos = <<>>
    /\ gallery_index = 0
    /\ gallery_delete_confirm = FALSE
    /\ s_photo_num = 0
    /\ s_wrote = FALSE

\* ---- run ----------------------------------------------------------------

\* `if self.gallery_mode: ... continue`, then `if not self.capturing:`;
\* otherwise sleep and test again
Run_CheckCapturing ==
    /\ pcL = "lp_top"
    /\ ~gallery_mode
    /\ ~vf_capturing
    /\ pcL' = "lp_frame"
    /\ UNCHANGED <<vf_capturing, photos_taken, jpgFiles, frame_count, current_gain,
                   focus_locked, pcF, galleryVars, cam_running, cam_mode, dev_gain, dev_afmode,
                   pcS, s_photo_num, s_wrote>>
    /\ VfOnly

\* camera_array = self.camera.capture_array(); a frame arrives only from a
\* started camera; `except Exception: pass` drops the frame
Run_CaptureArray ==
    /\ pcL = "lp_frame"
    /\ \E outcome \in {"ok", "raise"} :
         IF outcome = "ok"
         THEN /\ cam_running
              /\ pcL' = IF frame_count % MetadataEvery = 0 THEN "lp_meta" ELSE "lp_show"
         ELSE pcL' = "lp_top"
    /\ UNCHANGED <<vf_capturing, photos_taken, jpgFiles, frame_count, current_gain,
                   focus_locked, pcF, galleryVars, cam_running, cam_mode, dev_gain, dev_afmode,
                   pcS, s_photo_num, s_wrote>>
    /\ VfOnly

\* metadata = self.camera.capture_metadata()
Run_CaptureMetadata ==
    /\ pcL = "lp_meta"
    /\ \E outcome \in {"ok", "raise"} :
         IF outcome = "ok"
         THEN /\ cam_running
              /\ pcL' = "lp_gain"
         ELSE pcL' = "lp_top"
    /\ UNCHANGED <<vf_capturing, photos_taken, jpgFiles, frame_count, current_gain,
                   focus_locked, pcF, galleryVars, cam_running, cam_mode, dev_gain, dev_afmode,
                   pcS, s_photo_num, s_wrote>>
    /\ VfOnly

\* manual exposure: a new gain g is computed from the frame's brightness and
\* sent with set_controls when it differs from the current one
Run_AdjustGain ==
    /\ pcL = "lp_gain"
    /\ \E g \in GainLevels, outcome \in {"ok", "raise"} :
         IF focus_locked \/ g = current_gain
         THEN /\ outcome = "ok"
              /\ pcL' = "lp_show"
              /\ UNCHANGED <<current_gain, dev_gain>>
         ELSE /\ current_gain' = g
              /\ IF outcome = "ok"
                 THEN /\ dev_gain' = g
                      /\ pcL' = "lp_show"
                 ELSE /\ dev_gain' = dev_gain
                      /\ pcL' = "lp_top"
    /\ UNCHANGED <<vf_capturing, photos_taken, jpgFiles, frame_count,
                   focus_locked, pcF, galleryVars, cam_running, cam_mode, dev_afmode,
                   pcS, s_photo_num, s_wrote>>
    /\ VfOnly

\* show the frame; self.frame_count += 1
Run_ShowFrame ==
    /\ pcL = "lp_show"
    /\ frame_count' = (frame_count + 1) % MetadataEvery
    /\ pcL' = "lp_top"
    /\ UNCHANGED <<vf_capturing, photos_taken, jpgFiles, current_gain,
                   focus_locked, pcF, galleryVars, cam_running, cam_mode, dev_gain, dev_afmode,
                   pcS, s_photo_num, s_wrote>>
    /\ VfOnly

\* ---- on_shutter_pressed -------------------------------------------------

\* the frame of every step of the handler that only moves on
ShutterMoves(to) ==
    /\ pcS' = to
    /\ UNCHANGED <<photos_taken, jpgFiles, frame_count, current_gain, focus_locked, pcF, galleryVars,
                   pcL, s_photo_num>>
    /\ VfOnly

\* the button is pressed: self.capturing = True
Shutter_Pressed ==
    /\ pcS = "sh_idle"
    /\ photos_taken < MaxCounter
    /\ vf_capturing' = TRUE
    /\ s_wrote' = FALSE
    /\ ShutterMoves("sh_name")
    /\ UNCHANGED <<cam_running, cam_mode, dev_gain, dev_afmode>>

\* photo_num = self.photos_taken + 1
Shutter_Name ==
    /\ pcS = "sh_name"
    /\ s_photo_num' = photos_taken + 1
    /\ pcS' = "sh_stop1"
    /\ UNCHANGED <<vf_capturing, photos_taken, jpgFiles, frame_count, current_gain,
                   focus_locked, pcF, galleryVars, cam_running, cam_mode, dev_gain, dev_afmode,
                   pcL, s_wrote>>
    /\ VfOnly

\* self.camera.stop(), at `from`; an exception goes to the except clause
Shutter_Stop(from, to) ==
    /\ pcS = from
    /\ \E outcome \in {"ok", "raise"} :
         IF outcome = "ok"
         THEN /\ cam_running' = FALSE
              /\ ShutterMoves(to)
         ELSE /\ cam_running' = cam_running
              /\ ShutterMoves("sh_except")
    /\ UNCHANGED <<vf_capturing, cam_mode, dev_gain, dev_afmode, s_wrote>>

\* self.camera.configure(config), at `from`: a started camera refuses it, and
\* a new configuration drops the controls that were set
Shutter_Configure(from, mode, to) ==
    /\ pcS = from
    /\ \E outcome \in {"ok", "raise"} :
         IF outcome = "ok"
         THEN /\ ~cam_running
              /\ cam_mode' = mode
              /\ dev_gain' = 0
              /\ dev_afmode' = -1
              /\ ShutterMoves(to)
         ELSE /\ UNCHANGED <<cam_mode, dev_gain, dev_afmode>>
              /\ ShutterMoves("sh_except")
    /\ UNCHANGED <<vf_capturing, cam_running, s_wrote>>

\* self.camera.start(), at `from`
Shutter_Start(from, to) ==
    /\ pcS = from
    /\ \E outcome \in {"ok", "raise"} :
         IF outcome = "ok"
         THEN /\ cam_running' = TRUE
              /\ ShutterMoves(to)
         ELSE /\ cam_running' = cam_running
              /\ ShutterMoves("sh_except")
    /\ UNCHANGED <<vf_capturing, cam_mode, dev_gain, dev_afmode, s_wrote>>

Shutter_StopPreview == Shutter_Stop("sh_stop1", "sh_cfg1")

Shutter_ConfigureHighres == Shutter_Configure("sh_cfg1", "highres", "sh_start1")

Shutter_StartHighres == Shutter_Start("sh_start1", "sh_capture")

\* self.camera.capture_file(str(filename)): writes (or overwrites) the file
Shutter_CaptureFile ==
    /\ pcS = "sh_capture"
    /\ \E outcome \in {"ok", "raise"} :
         IF outcome = "ok"
         THEN /\ cam_running
              /\ jpgFiles' = jpgFiles \cup {s_photo_num}
              /\ s_wrote' = TRUE
              /\ pcS' = "sh_stop2"
         ELSE /\ UNCHANGED <<jpgFiles, s_wrote>>
              /\ pcS' = "sh_except"
    /\ UNCHANGED <<vf_capturing, photos_taken, frame_count, current_gain, focus_locked, pcF, galleryVars,
                   cam_running, cam_mode, dev_gain, dev_afmode, pcL, s_photo_num>>
    /\ VfOnly

Shutter_StopHighres == Shutter_Stop("sh_stop2", "sh_cfg2")

Shutter_ConfigurePreview == Shutter_Configure("sh_cfg2", "preview", "sh_controls")

\* the two set_controls calls that restore the gain and the focus mode
Shutter_RestoreControls ==
    /\ pcS = "sh_controls"
    /\ \E outcome \in {"ok", "raise_first", "raise_second"} :
         IF outcome = "raise_first"
         THEN /\ UNCHANGED <<dev_gain, dev_afmode>>
              /\ ShutterMoves("sh_except")
         ELSE /\ dev_gain' = current_gain
              /\ IF outcome = "ok"
                 THEN /\ dev_afmode' = IF focus_locked THEN 0 ELSE 2
                      /\ ShutterMoves("sh_start2")
                 ELSE /\ dev_afmode' = dev_afmode
                      /\ ShutterMoves("sh_except")
    /\ UNCHANGED <<vf_capturing, cam_running, cam_mode, s_wrote>>

Shutter_StartPreview == Shutter_Start("sh_start2", "sh_count")

\* self.photos_taken += 1
Shutter_Count ==
    /\ pcS = "sh_count"
    /\ photos_taken' = photos_taken + 1
    /\ pcS' = "sh_finally"
    /\ UNCHANGED <<vf_capturing, jpgFiles, frame_count, current_gain, focus_locked, pcF, galleryVars,
                   cam_running, cam_mode, dev_gain, dev_afmode, pcL, s_photo_num,
                   s_wrote>>
    /\ VfOnly

\* except Exception: stop, configure the preview and start again, inside a
\* try whose bare except ignores whatever any of the three raises
Shutter_Except ==
    /\ pcS = "sh_except"
    /\ \E outcome \in {"ok", "raise_stop", "raise_configure", "raise_start"} :
         IF outcome = "raise_stop"
         THEN UNCHANGED <<cam_running, cam_mode, dev_gain, dev_afmode>>
         ELSE IF outcome = "raise_configure"
         THEN /\ cam_running' = FALSE
              /\ UNCHANGED <<cam_mode, dev_gain, dev_afmode>>
         ELSE /\ cam_mode' = "preview"
              /\ dev_gain' = 0
              /\ dev_afmode' = -1
              /\ cam_running' = (outcome = "ok")
    /\ ShutterMoves("sh_finally")
    /\ UNCHANGED <<vf_capturing, s_wrote>>

\* finally: self.capturing = False
Shutter_Finally ==
    /\ pcS = "sh_finally"
    /\ vf_capturing' = FALSE
    /\ ShutterMoves("sh_idle")
    /\ UNCHANGED <<cam_running, cam_mode, dev_gain, dev_afmode, s_wrote>>

\* ---- on_focus_pressed / on_focus_released ------------------------------

\* the frame of a step of a focus handler
FocusOnly ==
    /\ UNCHANGED <<vf_capturing, photos_taken, jpgFiles, frame_count, current_gain,
                   cam_running, cam_mode, dev_gain, pcL, pcS, s_photo_num, s_wrote>>
    /\ VfOnly

\* _exit_gallery: gallery_mode = False, gallery_photos = [], gallery_index = 0
ExitGallery ==
    /\ gallery_mode' = FALSE
    /\ gallery_photos' = <<>>
    /\ gallery_index' = 0

\* the focus button is pressed: in gallery mode the handler leaves the gallery
\* and returns; otherwise self.camera.set_controls({"AfMode": 2}), and an
\* exception ends the handler in its except clause
Focus_Pressed ==
    /\ pcF = "f_up"
    /\ IF gallery_mode
       THEN /\ ExitGallery
            /\ pcF' = "f_down"
            /\ UNCHANGED <<dev_afmode, gallery_delete_confirm>>
       ELSE /\ \E outcome \in {"ok", "raise"} :
                 IF outcome = "ok"
                 THEN /\ dev_afmode' = 2
                      /\ pcF' = "f_scan"
                 ELSE /\ dev_afmode' = dev_afmode
                      /\ pcF' = "f_down"
            /\ UNCHANGED galleryVars
    /\ UNCHANGED focus_locked
    /\ FocusOnly

\* the AF scan is triggered and waited for ("raise_scan" when one of these
\* calls raises); then self.focus_locked = True and
\* set_controls({"AfMode": 0, "AeEnable": False})
Focus_Lock ==
    /\ pcF = "f_scan"
    /\ \E outcome \in {"ok", "raise_scan", "raise_lock"} :
         /\ focus_locked' = IF outcome = "raise_scan" THEN focus_locked ELSE TRUE
         /\ dev_afmode' = IF outcome = "ok" THEN 0 ELSE dev_afmode
    /\ pcF' = "f_down"
    /\ UNCHANGED galleryVars
    /\ FocusOnly

\* the focus button is released: self.focus_locked = False and
\* set_controls({"AfMode": 2, "AeEnable": True})
Focus_Released ==
    /\ pcF = "f_down"
    /\ focus_locked' = FALSE
    /\ \E outcome \in {"ok", "raise"} :
         dev_afmode' = IF outcome = "ok" THEN 2 ELSE dev_afmode
    /\ pcF' = "f_up"
    /\ UNCHANGED galleryVars
    /\ FocusOnly

\* ---- the gallery: joystick handlers and the web gallery's delete ---------

\* sorted(PHOTO_DIR.glob("PICAM_*.jpg")): the stored photos, oldest first
RECURSIVE SortedPhotos(_)
SortedPhotos(files) ==
    IF files = {} THEN <<>>
    ELSE LET first == CHOOSE n \in files : \A m \in files : n <= m
         IN  <<first>> \o SortedPhotos(files \ {first})

\* the list after gallery_photos.pop(index), index counted from 0
PopAt(photos, index) ==
    SubSeq(photos, 1, index) \o SubSeq(photos, index + 2, Len(photos))

\* the frame of a joystick handler or of the web gallery
GalleryOnly ==
    /\ UNCHANGED <<vf_capturing, frame_count, current_gain, focus_locked, cam_running,
                   cam_mode, dev_gain, dev_afmode, pcL, pcS, pcF, s_photo_num, s_wrote>>
    /\ VfOnly

\* _open_gallery: the list is read from the folder; an empty folder leaves the
\* viewfinder where it is, otherwise the gallery opens on the newest photo
OpenGallery ==
    /\ gallery_photos' = SortedPhotos(jpgFiles)
    /\ IF jpgFiles = {}
       THEN UNCHANGED <<gallery_mode, gallery_index>>
       ELSE /\ gallery_mode' = TRUE
            /\ gallery_index' = Cardinality(jpgFiles) - 1

\* a variant of GalleryTurn that steps without wrapping around the list
GalleryTurn_NoWrap(by) ==
    /\ gallery_delete_confirm' = FALSE
    /\ gallery_index' = gallery_index + by
    /\ UNCHANGED <<gallery_mode, gallery_photos>>

\* gallery_index = (gallery_index + by) % len(gallery_photos), after the delete
\* confirmation is reset; the division raises on an empty list
GalleryTurn(by) ==
    /\ gallery_delete_confirm' = FALSE
    /\ gallery_index' = IF Len(gallery_photos) = 0 THEN gallery_index
                        ELSE (gallery_index + by) % Len(gallery_photos)
    /\ UNCHANGED <<gallery_mode, gallery_photos>>

\* LEFT: the previous photo in gallery mode, otherwise the gallery opens
Joy_Left_Pressed ==
    /\ IF gallery_mode
       THEN GalleryTurn(-1)
       ELSE /\ OpenGallery
            /\ UNCHANGED gallery_delete_confirm
    /\ UNCHANGED <<photos_taken, jpgFiles>>
    /\ GalleryOnly

\* RIGHT: the next photo in gallery mode
Joy_Right_Pressed ==
    /\ gallery_mode
    /\ GalleryTurn(1)
    /\ UNCHANGED <<photos_taken, jpgFiles>>
    /\ GalleryOnly

\* UP: leaves the gallery
Joy_Up_Pressed ==
    /\ gallery_mode
    /\ ExitGallery
    /\ UNCHANGED <<photos_taken, jpgFiles, gallery_delete_confirm>>
    /\ GalleryOnly

\* SWITCH: leaves the gallery
Joy_Switch_Pressed ==
    /\ gallery_mode
    /\ ExitGallery
    /\ UNCHANGED <<photos_taken, jpgFiles, gallery_delete_confirm>>
    /\ GalleryOnly

\* DOWN in gallery mode: the first press asks for confirmation; the second
\* unlinks the shown photo, pops it from the list, recounts the folder and
\* leaves the gallery when the list is empty, else clamps the index; unlink
\* raises when the file is gone and the except clause resets the confirmation
Joy_Down_Pressed ==
    /\ gallery_mode
    /\ IF ~(gallery_photos # <<>> /\ gallery_index < Len(gallery_photos))
       THEN UNCHANGED <<photos_taken, jpgFiles, galleryVars>>
       ELSE IF ~gallery_delete_confirm
       THEN /\ gallery_delete_confirm' = TRUE
            /\ UNCHANGED <<photos_taken, jpgFiles, gallery_mode, gallery_photos,
                           gallery_index>>
       ELSE LET photo_to_delete == gallery_photos[gallery_index + 1]
                rest == PopAt(gallery_photos, gallery_index)
            IN  /\ gallery_delete_confirm' = FALSE
                /\ \E outcome \in {"ok", "raise"} :
                     IF outcome = "ok"
                     THEN /\ photo_to_delete \in jpgFiles
                          /\ jpgFiles' = jpgFiles \ {photo_to_delete}
                          /\ photos_taken' = Cardinality(jpgFiles')
                          /\ IF rest = <<>>
                             THEN ExitGallery
                             ELSE /\ gallery_photos' = rest
                                  /\ gallery_index' =
                                       IF gallery_index >= Len(rest) THEN Len(rest) - 1
                                       ELSE gallery_index
                                  /\ UNCHANGED gallery_mode
                     ELSE UNCHANGED <<photos_taken, jpgFiles, gallery_mode,
                                      gallery_photos, gallery_index>>
    /\ GalleryOnly

\* POST /delete/<filename> of the web gallery: the file is unlinked and
\* photos_taken becomes the number of .jpg files left; the gallery of the
\* display is not told
DeletePhoto(n) ==
    /\ n \in jpgFiles
    /\ jpgFiles' = jpgFiles \ {n}
    /\ photos_taken' = Cardinality(jpgFiles')
    /\ UNCHANGED galleryVars
    /\ GalleryOnly

VfGalleryStep ==
    \/ Joy_Left_Pressed
    \/ Joy_Right_Pressed
    \/ Joy_Up_Pressed
    \/ Joy_Switch_Pressed
    \/ Joy_Down_Pressed
    \/ \E n \in 1..MaxCounter : DeletePhoto(n)

VfLoopStep ==
    \/ Run_CheckCapturing
    \/ Run_CaptureArray
    \/ Run_CaptureMetadata
    \/ Run_AdjustGain
    \/ Run_ShowFrame

VfShutterStep ==
    \/ Shutter_Pressed
    \/ Shutter_Name
    \/ Shutter_StopPreview
    \/ Shutter_ConfigureHighres
    \/ Shutter_StartHighres
    \/ Shutter_CaptureFile
    \/ Shutter_StopHighres
    \/ Shutter_ConfigurePreview
    \/ Shutter_RestoreControls
    \/ Shutter_StartPreview
    \/ Shutter_Count
    \/ Shutter_Except
    \/ Shutter_Finally

VfFocusStep ==
    \/ Focus_Pressed
    \/ Focus_Lock
    \/ Focus_Released

VfNext == VfLoopStep \/ VfShutterStep \/ VfFocusStep

\* the buttons, the joystick and the web gallery in use; the preview loop
\* reads neither the folder nor the gallery and is left out
VfGalleryNext == VfShutterStep \/ VfFocusStep \/ VfGalleryStep

(***************************************************************************)
(* Part III: Pi_cam_raw.py                                                 *)
(* The /fast_capture route: Flask serves each request on a thread of its   *)
(* own, and the route calls simple_dng_capture.                            *)
(***************************************************************************)
RECURSIVE NameNumber(_)
\* int(f[5:8]) of the name "photo%03d.jpg" % n: the first three digits of n
NameNumber(n) == IF n < 1000 THEN n ELSE NameNumber(n \div 10)

\* get_next_photo_number(), reading photos/jpg
get_next_photo_number ==
    IF raw_jpg = {} THEN 1 ELSE MaxOf({NameNumber(n) : n \in raw_jpg}) + 1

\* positions of simple_dng_capture at which the thread holds a capture request
RequestHeld == {"r_save_main", "r_save_dng", "r_release"}

\* the photo folders when the server starts, photos/jpg and photos/dng
\* holding `dirs`, and no /fast_capture request in progress
RawFoldersFrom(dirs) ==
    /\ raw_jpg \in dirs
    /\ raw_dng = raw_jpg
    /\ raw_pc = [t \in Clients |-> "r_idle"]
    /\ raw_photo_num = [t \in Clients |-> 0]
    /\ raw_failed = [t \in Clients |-> FALSE]

\* POST /fast_capture arrives
FastCapture_Begin(t) ==
    /\ raw_pc[t] = "r_idle"
    /\ get_next_photo_number <= MaxCounter
    /\ raw_pc' = [raw_pc EXCEPT ![t] = "r_number"]
    /\ UNCHANGED <<raw_jpg, raw_dng, raw_photo_num, raw_failed>>
    /\ UNCHANGED rqVars
    /\ RawOnly

\* photo_num = get_next_photo_number()
SimpleDngCapture_Number(t) ==
    /\ raw_pc[t] = "r_number"
    /\ raw_photo_num' = [raw_photo_num EXCEPT ![t] = get_next_photo_number]
    /\ raw_pc' = [raw_pc EXCEPT ![t] = "r_request"]
    /\ UNCHANGED <<raw_jpg, raw_dng, raw_failed>>
    /\ UNCHANGED rqVars
    /\ RawOnly

\* request = picam2.capture_request(); an exception leaves the route
SimpleDngCapture_Request(t) ==
    /\ raw_pc[t] = "r_request"
    /\ \E outcome \in {"ok", "raise"} :
         raw_pc' = [raw_pc EXCEPT ![t] = IF outcome = "ok" THEN "r_save_main"
                                           ELSE "r_return"]
    /\ UNCHANGED <<raw_jpg, raw_dng, raw_photo_num, raw_failed>>
    /\ UNCHANGED rqVars
    /\ RawOnly

\* request.save("main", jpg_file)
SimpleDngCapture_SaveMain(t) ==
    /\ raw_pc[t] = "r_save_main"
    /\ \E outcome \in {"ok", "raise"} :
         IF outcome = "ok"
         THEN /\ raw_jpg' = raw_jpg \cup {raw_photo_num[t]}
              /\ raw_pc' = [raw_pc EXCEPT ![t] = "r_save_dng"]
              /\ raw_failed' = raw_failed
         ELSE /\ raw_jpg' = raw_jpg
              /\ raw_pc' = [raw_pc EXCEPT ![t] = "r_release"]
              /\ raw_failed' = [raw_failed EXCEPT ![t] = TRUE]
    /\ UNCHANGED <<raw_dng, raw_photo_num>>
    /\ UNCHANGED rqVars
    /\ RawOnly

\* request.save_dng(dng_file)
SimpleDngCapture_SaveDng(t) ==
    /\ raw_pc[t] = "r_save_dng"
    /\ \E outcome \in {"ok", "raise"} :
         IF outcome = "ok"
         THEN /\ raw_dng' = raw_dng \cup {raw_photo_num[t]}
              /\ raw_failed' = raw_failed
         ELSE /\ raw_dng' = raw_dng
              /\ raw_failed' = [raw_failed EXCEPT ![t] = TRUE]
    /\ raw_pc' = [raw_pc EXCEPT ![t] = "r_release"]
    /\ UNCHANGED <<raw_jpg, raw_photo_num>>
    /\ UNCHANGED rqVars
    /\ RawOnly

\* finally: request.release()
SimpleDngCapture_Release(t) ==
    /\ raw_pc[t] = "r_release"
    /\ raw_pc' = [raw_pc EXCEPT ![t] = "r_return"]
    /\ UNCHANGED <<raw_jpg, raw_dng, raw_photo_num, raw_failed>>
    /\ UNCHANGED rqVars
    /\ RawOnly

\* the route answers (the filename, or the server's error page)
FastCapture_Return(t) ==
    /\ raw_pc[t] = "r_return"
    /\ raw_pc' = [raw_pc EXCEPT ![t] = "r_idle"]
    /\ raw_photo_num' = [raw_photo_num EXCEPT ![t] = 0]
    /\ raw_failed' = [raw_failed EXCEPT ![t] = FALSE]
    /\ UNCHANGED <<raw_jpg, raw_dng>>
    /\ UNCHANGED rqVars
    /\ RawOnly

RawClientStep(t) ==
    \/ FastCapture_Begin(t)
    \/ SimpleDngCapture_Number(t)
    \/ SimpleDngCapture_Request(t)
    \/ SimpleDngCapture_SaveMain(t)
    \/ SimpleDngCapture_SaveDng(t)
    \/ SimpleDngCapture_Release(t)
    \/ FastCapture_Return(t)

RawNext == \E t \in Clients : RawClientStep(t)

(***************************************************************************)
(* Part III, continued: Pi_cam_raw.py                                      *)
(* fast_capture_photo (the producer), background_dng_processor (the one    *)
(* consumer thread, a daemon) and the shutdown in __main__.                *)
(***************************************************************************)
\* raw_queue.put(None): the shutdown signal
Sentinel == 0

\* the process is still running
RawRunning == m_pc # "m_exited"

\* what a call that can fail may do in this run
Outcomes(all) == IF env_faults THEN all ELSE {"ok"}

\* captures are requested while the next photo number is within this limit
ItemLimit == IF env_faults THEN MaxFaultyItems ELSE MaxBurst

\* the items of a sequence of puts: the photo numbers, without the shutdown signal
ItemsOf(q) == {q[i] : i \in {j \in 1..Len(q) : q[j] # Sentinel}}

\* raw_queue.qsize(), not counting the shutdown signal
QueuedItems == Cardinality({i \in 1..Len(raw_queue) : raw_queue[i] # Sentinel})

\* the items put in the queue, in the order of the puts
IsItem(x) == x # Sentinel
Accepted == SelectSeq(enq_log, IsItem)

\* the items put in the queue before the shutdown signal
BeforeSentinel ==
    {enq_log[i] : i \in {j \in 1..Len(enq_log) :
                           /\ enq_log[j] # Sentinel
                           /\ \E k \in (j+1)..Len(enq_log) : enq_log[k] = Sentinel}}

\* the processing thread has ended
ConsumerStopped == cons_pc \in {"c_done", "c_killed"}

\* the items whose processing has finished (with or without an error)
Finished ==
    IF cons_pc \in {"c_npy", "c_dng", "c_custom"}
    THEN ItemsOf(proc_log) \ {cons_item}
    ELSE ItemsOf(proc_log)

\* the state when init_camera has returned and the processing thread is
\* started, in a run whose calls can fail or not, as `faulty` allows
RawQueueInitFrom(faulty) ==
    /\ env_faults \in faulty
    /\ raw_camera_lock = None
    /\ raw_queue = <<>>
    /\ processing_active = TRUE
    /\ enq_log = <<>>
    /\ proc_log = <<>>
    /\ raw_npy = {}
    /\ raw_npz = {}
    /\ raw_processed = {}
    /\ proc_errors = {}
    /\ fq_pc = [t \in Clients |-> "fq_idle"]
    /\ fq_photo_num = [t \in Clients |-> 0]
    /\ fq_failed = [t \in Clients |-> FALSE]
    /\ fq_result = [t \in Clients |-> "none"]
    /\ cons_pc = "c_top"
    /\ cons_item = 0
    /\ m_pc = "m_serving"

\* the state when the server starts, in a run in which no call fails
RawInitFrom(dirs) == RawFoldersFrom(dirs) /\ RawQueueInitFrom({FALSE})

\* ---- fast_capture_photo -------------------------------------------------

\* the frame of a producer step: it leaves the consumer, the main thread and
\* the /fast_capture requests alone
ProducerOnly ==
    /\ UNCHANGED <<env_faults, processing_active, proc_log, raw_npy, raw_npz,
                   raw_processed, proc_errors, cons_pc, cons_item, m_pc, raw_dng,
                   simpleVars>>
    /\ RawOnly

\* fast_capture_photo() is called
FastCapturePhoto_Begin(t) ==
    /\ RawRunning
    /\ fq_pc[t] = "fq_idle"
    /\ get_next_photo_number <= ItemLimit
    /\ Len(Accepted) < ItemLimit
    /\ fq_pc' = [fq_pc EXCEPT ![t] = "fq_lock"]
    /\ UNCHANGED <<raw_camera_lock, raw_queue, enq_log, raw_jpg, fq_photo_num,
                   fq_failed, fq_result>>
    /\ ProducerOnly

\* a variant of FastCapturePhoto_Acquire that enters without waiting for the lock
FastCapturePhoto_Acquire_NoWait(t) ==
    /\ RawRunning
    /\ fq_pc[t] = "fq_lock"
    /\ raw_camera_lock' = t
    /\ fq_pc' = [fq_pc EXCEPT ![t] = "fq_number"]
    /\ UNCHANGED <<raw_queue, enq_log, raw_jpg, fq_photo_num, fq_failed, fq_result>>
    /\ ProducerOnly

\* with camera_lock:
FastCapturePhoto_Acquire(t) ==
    /\ RawRunning
    /\ fq_pc[t] = "fq_lock"
    /\ raw_camera_lock = None
    /\ raw_camera_lock' = t
    /\ fq_pc' = [fq_pc EXCEPT ![t] = "fq_number"]
    /\ UNCHANGED <<raw_queue, enq_log, raw_jpg, fq_photo_num, fq_failed, fq_result>>
    /\ ProducerOnly

\* photo_num = get_next_photo_number()
FastCapturePhoto_Number(t) ==
    /\ RawRunning
    /\ fq_pc[t] = "fq_number"
    /\ fq_photo_num' = [fq_photo_num EXCEPT ![t] = get_next_photo_number]
    /\ fq_pc' = [fq_pc EXCEPT ![t] = "fq_request"]
    /\ UNCHANGED <<raw_camera_lock, raw_queue, enq_log, raw_jpg, fq_failed, fq_result>>
    /\ ProducerOnly

\* request = picam2.capture_request(): returns, raises (caught by the outer
\* except) or never returns
FastCapturePhoto_Request(t) ==
    /\ RawRunning
    /\ fq_pc[t] = "fq_request"
    /\ \E outcome \in Outcomes({"ok", "raise", "hang"}) :
         /\ fq_pc' = [fq_pc EXCEPT ![t] =
               IF outcome = "ok" THEN "fq_save"
               ELSE IF outcome = "raise" THEN "fq_return" ELSE "fq_hung"]
         /\ fq_result' = [fq_result EXCEPT ![t] = IF outcome = "raise" THEN "error" ELSE @]
    /\ UNCHANGED <<raw_camera_lock, raw_queue, enq_log, raw_jpg, fq_photo_num, fq_failed>>
    /\ ProducerOnly

\* request.save("main", jpg_file)
FastCapturePhoto_SaveMain(t) ==
    /\ RawRunning
    /\ fq_pc[t] = "fq_save"
    /\ \E outcome \in Outcomes({"ok", "raise"}) :
         IF outcome = "ok"
         THEN /\ raw_jpg' = raw_jpg \cup {fq_photo_num[t]}
              /\ fq_pc' = [fq_pc EXCEPT ![t] = "fq_array"]
              /\ fq_failed' = fq_failed
         ELSE /\ raw_jpg' = raw_jpg
              /\ fq_pc' = [fq_pc EXCEPT ![t] = "fq_release"]
              /\ fq_failed' = [fq_failed EXCEPT ![t] = TRUE]
    /\ UNCHANGED <<raw_camera_lock, raw_queue, enq_log, fq_photo_num, fq_result>>
    /\ ProducerOnly

\* raw_array = request.make_array("raw"); metadata = request.get_metadata()
FastCapturePhoto_MakeArray(t) ==
    /\ RawRunning
    /\ fq_pc[t] = "fq_array"
    /\ \E outcome \in Outcomes({"ok", "raise"}) :
         /\ fq_pc' = [fq_pc EXCEPT ![t] = IF outcome = "ok" THEN "fq_put" ELSE "fq_release"]
         /\ fq_failed' = [fq_failed EXCEPT ![t] = (outcome = "raise")]
    /\ UNCHANGED <<raw_camera_lock, raw_queue, enq_log, raw_jpg, fq_photo_num, fq_result>>
    /\ ProducerOnly

\* (a variant with the queue created as queue.Queue(maxsize=QueueCapacity):
\* put waits while the queue is full)
FastCapturePhoto_Put_Bounded(t) ==
    /\ RawRunning
    /\ fq_pc[t] = "fq_put"
    /\ Len(raw_queue) < QueueCapacity
    /\ raw_queue' = Append(raw_queue, fq_photo_num[t])
    /\ enq_log' = Append(enq_log, fq_photo_num[t])
    /\ fq_pc' = [fq_pc EXCEPT ![t] = "fq_release"]
    /\ UNCHANGED <<raw_camera_lock, raw_jpg, fq_photo_num, fq_failed, fq_result>>
    /\ ProducerOnly

\* raw_queue.put((photo_num, raw_array.copy(), metadata, time.time())): the
\* queue has no maxsize, so put returns at once whatever its length
FastCapturePhoto_Put(t) ==
    /\ RawRunning
    /\ fq_pc[t] = "fq_put"
    /\ raw_queue' = Append(raw_queue, fq_photo_num[t])
    /\ enq_log' = Append(enq_log, fq_photo_num[t])
    /\ fq_pc' = [fq_pc EXCEPT ![t] = "fq_release"]
    /\ UNCHANGED <<raw_camera_lock, raw_jpg, fq_photo_num, fq_failed, fq_result>>
    /\ ProducerOnly

\* finally: request.release(); a pending exception then reaches the outer except
FastCapturePhoto_Release(t) ==
    /\ RawRunning
    /\ fq_pc[t] = "fq_release"
    /\ fq_pc' = [fq_pc EXCEPT ![t] = IF fq_failed[t] THEN "fq_return" ELSE "fq_result"]
    /\ fq_result' = [fq_result EXCEPT ![t] = IF fq_failed[t] THEN "error" ELSE @]
    /\ UNCHANGED <<raw_camera_lock, raw_queue, enq_log, raw_jpg, fq_photo_num, fq_failed>>
    /\ ProducerOnly

\* jpg_size = os.path.getsize(jpg_file); the success dict is built
FastCapturePhoto_Result(t) ==
    /\ RawRunning
    /\ fq_pc[t] = "fq_result"
    /\ \E outcome \in Outcomes({"ok", "raise"}) :
         fq_result' = [fq_result EXCEPT ![t] = IF outcome = "ok" THEN "success" ELSE "error"]
    /\ fq_pc' = [fq_pc EXCEPT ![t] = "fq_return"]
    /\ UNCHANGED <<raw_camera_lock, raw_queue, enq_log, raw_jpg, fq_photo_num, fq_failed>>
    /\ ProducerOnly

\* return {...}: leaving the with block releases camera_lock
FastCapturePhoto_Return(t) ==
    /\ RawRunning
    /\ fq_pc[t] = "fq_return"
    /\ raw_camera_lock' = None
    /\ fq_pc' = [fq_pc EXCEPT ![t] = "fq_idle"]
    /\ fq_photo_num' = [fq_photo_num EXCEPT ![t] = 0]
    /\ fq_failed' = [fq_failed EXCEPT ![t] = FALSE]
    /\ fq_result' = [fq_result EXCEPT ![t] = "none"]
    /\ UNCHANGED <<raw_queue, enq_log, raw_jpg>>
    /\ ProducerOnly

ProducerStep(t) ==
    \/ FastCapturePhoto_Begin(t)
    \/ FastCapturePhoto_Acquire(t)
    \/ FastCapturePhoto_Number(t)
    \/ FastCapturePhoto_Request(t)
    \/ FastCapturePhoto_SaveMain(t)
    \/ FastCapturePhoto_MakeArray(t)
    \/ FastCapturePhoto_Put(t)
    \/ FastCapturePhoto_Release(t)
    \/ FastCapturePhoto_Result(t)
    \/ FastCapturePhoto_Return(t)

\* ---- background_dng_processor -------------------------------------------

\* the frame of a consumer step
ConsumerOnly ==
    /\ UNCHANGED <<env_faults, processing_active, raw_camera_lock, enq_log, raw_jpg,
                   fq_pc, fq_photo_num, fq_failed, fq_result, m_pc, simpleVars>>
    /\ RawOnly

\* while processing_active or not raw_queue.empty():
Processor_While ==
    /\ RawRunning
    /\ cons_pc = "c_top"
    /\ cons_pc' = IF processing_active \/ raw_queue # <<>> THEN "c_get" ELSE "c_done"
    /\ UNCHANGED <<raw_queue, cons_item, proc_log, raw_npy, raw_dng, raw_npz, raw_processed,
                   proc_errors>>
    /\ ConsumerOnly

\* (a variant that takes the newest item first, as a LifoQueue would)
Processor_Get_Newest ==
    /\ RawRunning
    /\ cons_pc = "c_get"
    /\ IF raw_queue = <<>>
       THEN /\ cons_pc' = "c_top"
            /\ UNCHANGED <<raw_queue, cons_item, proc_log>>
       ELSE LET item == raw_queue[Len(raw_queue)] IN
            /\ raw_queue' = SubSeq(raw_queue, 1, Len(raw_queue) - 1)
            /\ cons_item' = item
            /\ proc_log' = IF item = Sentinel THEN proc_log ELSE Append(proc_log, item)
            /\ cons_pc' = IF item = Sentinel THEN "c_done" ELSE "c_npy"
    /\ UNCHANGED <<raw_npy, raw_dng, raw_npz, raw_processed, proc_errors>>
    /\ ConsumerOnly

\* item = raw_queue.get(timeout=1.0): the oldest item; queue.Empty after the
\* timeout goes back to the loop test; None ends the thread
Processor_Get ==
    /\ RawRunning
    /\ cons_pc = "c_get"
    /\ IF raw_queue = <<>>
       THEN /\ cons_pc' = "c_top"
            /\ UNCHANGED <<raw_queue, cons_item, proc_log>>
       ELSE LET item == Head(raw_queue) IN
            /\ raw_queue' = Tail(raw_queue)
            /\ cons_item' = item
            /\ proc_log' = IF item = Sentinel THEN proc_log ELSE Append(proc_log, item)
            /\ cons_pc' = IF item = Sentinel THEN "c_done" ELSE "c_npy"
    /\ UNCHANGED <<raw_npy, raw_dng, raw_npz, raw_processed, proc_errors>>
    /\ ConsumerOnly

\* except Exception as e: print(f"DNG processing error: {e}"); task_done():
\* the one handler of the loop body, whatever statement raised
ProcessingError(item, step) ==
    [photo_num |-> item, failed |-> step, kind |-> "DNG processing error"]

\* np.save(npy_file, raw_array): the raw backup; an exception reaches
\* `except Exception`, which calls task_done and goes on with the loop
Processor_SaveNpy ==
    /\ RawRunning
    /\ cons_pc = "c_npy"
    /\ \E outcome \in Outcomes({"ok", "raise"}) :
         IF outcome = "ok"
         THEN /\ raw_npy' = raw_npy \cup {cons_item}
              /\ proc_errors' = proc_errors
              /\ cons_pc' = "c_dng"
         ELSE /\ raw_npy' = raw_npy
              /\ proc_errors' = proc_errors \cup {ProcessingError(cons_item, "backup")}
              /\ cons_pc' = "c_top"
    /\ UNCHANGED <<raw_queue, cons_item, proc_log, raw_dng, raw_npz, raw_processed>>
    /\ ConsumerOnly

\* (a variant in which a failure of pidng ends the item without the fallback)
Processor_Convert_NoFallback ==
    /\ RawRunning
    /\ cons_pc = "c_dng"
    /\ \E outcome \in Outcomes({"ok", "raise"}) :
         /\ raw_dng' = IF outcome = "ok" THEN raw_dng \cup {cons_item} ELSE raw_dng
         /\ cons_pc' = "c_custom"
    /\ UNCHANGED <<raw_queue, cons_item, proc_log, raw_npy, raw_npz, raw_processed,
                   proc_errors>>
    /\ ConsumerOnly

\* the DNG is written with pidng ("ok"); when pidng is missing or raises,
\* `except Exception` writes the compressed numpy fallback instead
\* ("fallback"); when that raises too, the handler of the loop body ("raise")
Processor_Convert ==
    /\ RawRunning
    /\ cons_pc = "c_dng"
    /\ \E outcome \in Outcomes({"ok", "fallback", "raise"}) :
         /\ raw_dng' = IF outcome = "ok" THEN raw_dng \cup {cons_item} ELSE raw_dng
         /\ raw_npz' = IF outcome = "fallback" THEN raw_npz \cup {cons_item} ELSE raw_npz
         /\ proc_errors' = IF outcome = "raise"
                           THEN proc_errors \cup {ProcessingError(cons_item, "fallback")}
                           ELSE proc_errors
         /\ cons_pc' = IF outcome = "raise" THEN "c_top" ELSE "c_custom"
    /\ UNCHANGED <<raw_queue, cons_item, proc_log, raw_npy, raw_processed>>
    /\ ConsumerOnly

\* the processed placeholder is written; raw_queue.task_done()
Processor_Custom ==
    /\ RawRunning
    /\ cons_pc = "c_custom"
    /\ \E outcome \in Outcomes({"ok", "raise"}) :
         /\ raw_processed' = IF outcome = "ok" THEN raw_processed \cup {cons_item}
                             ELSE raw_processed
         /\ proc_errors' = IF outcome = "raise"
                           THEN proc_errors \cup {ProcessingError(cons_item, "custom")}
                           ELSE proc_errors
    /\ cons_pc' = "c_top"
    /\ UNCHANGED <<raw_queue, cons_item, proc_log, raw_npy, raw_dng, raw_npz>>
    /\ ConsumerOnly

ConsumerStep ==
    \/ Processor_While
    \/ Processor_Get
    \/ Processor_SaveNpy
    \/ Processor_Convert
    \/ Processor_Custom

\* ---- __main__: shutdown -------------------------------------------------

\* the frame of a step of the main thread
MainOnly ==
    /\ UNCHANGED <<env_faults, raw_camera_lock, raw_jpg, raw_dng, proc_log,
                   raw_npy, raw_npz, raw_processed, proc_errors, fq_pc, fq_photo_num,
                   fq_failed,
                   fq_result, cons_item, simpleVars>>
    /\ RawOnly

\* KeyboardInterrupt ends app.run; finally: processing_active = False
Shutdown_ClearActive ==
    /\ m_pc = "m_serving"
    /\ processing_active' = FALSE
    /\ m_pc' = "m_sentinel"
    /\ UNCHANGED <<raw_queue, enq_log, cons_pc>>
    /\ MainOnly

\* raw_queue.put(None)
Shutdown_PutSentinel ==
    /\ m_pc = "m_sentinel"
    /\ raw_queue' = Append(raw_queue, Sentinel)
    /\ enq_log' = Append(enq_log, Sentinel)
    /\ m_pc' = "m_stop"
    /\ UNCHANGED <<processing_active, cons_pc>>
    /\ MainOnly

\* picam2.stop(), and the main thread ends: the interpreter exits without
\* joining the processing thread, a daemon, which ends wherever it is
Shutdown_StopAndExit ==
    /\ m_pc = "m_stop"
    /\ m_pc' = "m_exited"
    /\ cons_pc' = IF cons_pc = "c_done" THEN "c_done" ELSE "c_killed"
    /\ UNCHANGED <<raw_queue, enq_log, processing_active>>
    /\ MainOnly

MainStep ==
    \/ Shutdown_ClearActive
    \/ Shutdown_PutSentinel
    \/ Shutdown_StopAndExit

RawQueueNext ==
    \/ \E t \in Clients : ProducerStep(t)
    \/ ConsumerStep
    \/ MainStep

\* ---- photos/jpg changed from outside the server ------------------------

\* a photo file is copied into photos/jpg, or deleted from it, by something
\* other than the server, which os.listdir("photos/jpg") sees from then on
External_ChangeFiles ==
    /\ RawRunning
    /\ \E n \in 1..ItemLimit :
         raw_jpg' = IF n \in raw_jpg THEN raw_jpg \ {n} ELSE raw_jpg \cup {n}
    /\ UNCHANGED <<raw_camera_lock, raw_queue, enq_log, fq_pc, fq_photo_num,
                   fq_failed, fq_result>>
    /\ ProducerOnly

RawFilesNext ==
    \/ \E t \in Clients : ProducerStep(t)
    \/ ConsumerStep
    \/ External_ChangeFiles

(***************************************************************************)
(* Part IV: working_code/Pi_cam.py                                         *)
(* The routes /capture/<photo_type> and /capture_dng.  Each request runs   *)
(* on its own thread and holds camera_lock from its first camera call to   *)
(* its return.  Every camera call either returns or raises; capture_file   *)
(* may also never return.                                                  *)
(***************************************************************************)
PhotoTypes == {"normal", "highrez", "dng"}

\* get_next_photo_number(folder_path, prefix): only names ending in .jpg are
\* read, so the dng folder, which holds dngNNN.dng, never yields a number
PiNextPhotoNumber(kind) ==
    IF kind = "dng" THEN 1 ELSE MaxOf(pi_files[kind]) + 1

\* the state when init_camera has returned True, the folders holding `dirs`
PiInitFrom(dirs) ==
    /\ camera_lock = None
    /\ pi_running = TRUE
    /\ pi_mode = "normal"
    /\ pi_files \in [PhotoTypes -> dirs]
    /\ pi_pc = [t \in Clients |-> "p_idle"]
    /\ pi_type = [t \in Clients |-> "none"]
    /\ pi_photo_num = [t \in Clients |-> 0]
    /\ pi_result = [t \in Clients |-> "none"]

\* the frame of a step of request t that moves on to `to`
PiMoves(t, to) ==
    /\ pi_pc' = [pi_pc EXCEPT ![t] = to]
    /\ UNCHANGED <<camera_lock, pi_files, pi_type, pi_photo_num>>
    /\ PiOnly

\* the frame of a step of request t that raises: the except clause builds the
\* error response
PiRaises(t) ==
    /\ pi_pc' = [pi_pc EXCEPT ![t] = "p_return"]
    /\ pi_result' = [pi_result EXCEPT ![t] = "error"]
    /\ UNCHANGED <<camera_lock, pi_files, pi_type, pi_photo_num>>
    /\ PiOnly

\* POST /capture/<photo_type> or POST /capture_dng arrives
PiCapture_Begin(t) ==
    /\ pi_pc[t] = "p_idle"
    /\ \E kind \in PhotoTypes :
         /\ PiNextPhotoNumber(kind) <= MaxCounter
         /\ pi_type' = [pi_type EXCEPT ![t] = kind]
    /\ pi_pc' = [pi_pc EXCEPT ![t] = "p_lock"]
    /\ UNCHANGED <<camera_lock, pi_running, pi_mode, pi_files, pi_photo_num, pi_result>>
    /\ PiOnly

\* with camera_lock:
PiCapture_Acquire(t) ==
    /\ pi_pc[t] = "p_lock"
    /\ camera_lock = None
    /\ camera_lock' = t
    /\ pi_pc' = [pi_pc EXCEPT ![t] = "p_stop"]
    /\ UNCHANGED <<pi_running, pi_mode, pi_files, pi_type, pi_photo_num, pi_result>>
    /\ PiOnly

\* picam2.stop(), at `from`
PiCapture_Stop(t, from, to) ==
    /\ pi_pc[t] = from
    /\ \E outcome \in {"ok", "raise"} :
         IF outcome = "ok"
         THEN /\ pi_running' = FALSE
              /\ pi_result' = pi_result
              /\ PiMoves(t, to)
         ELSE /\ pi_running' = pi_running
              /\ PiRaises(t)
    /\ pi_mode' = pi_mode

\* picam2.configure(config), at `from`: a started camera refuses it
PiCapture_Configure(t, from, mode, to) ==
    /\ pi_pc[t] = from
    /\ \E outcome \in {"ok", "raise"} :
         IF outcome = "ok"
         THEN /\ ~pi_running
              /\ pi_mode' = mode
              /\ pi_result' = pi_result
              /\ PiMoves(t, to)
         ELSE /\ pi_mode' = pi_mode
              /\ PiRaises(t)
    /\ pi_running' = pi_running

\* picam2.start(), at `from`
PiCapture_Start(t, from, to) ==
    /\ pi_pc[t] = from
    /\ \E outcome \in {"ok", "raise"} :
         IF outcome = "ok"
         THEN /\ pi_running' = TRUE
              /\ pi_result' = pi_result
              /\ PiMoves(t, to)
         ELSE /\ pi_running' = pi_running
              /\ PiRaises(t)
    /\ pi_mode' = pi_mode

PiCapture_StopFirst(t) == PiCapture_Stop(t, "p_stop", "p_cfg")

PiCapture_ConfigureMode(t) == PiCapture_Configure(t, "p_cfg", pi_type[t], "p_start")

PiCapture_StartMode(t) == PiCapture_Start(t, "p_start", "p_number")

\* photo_num = get_next_photo_number(folder, prefix)
PiCapture_Number(t) ==
    /\ pi_pc[t] = "p_number"
    /\ pi_photo_num' = [pi_photo_num EXCEPT ![t] = PiNextPhotoNumber(pi_type[t])]
    /\ pi_pc' = [pi_pc EXCEPT ![t] = "p_capture"]
    /\ UNCHANGED <<camera_lock, pi_running, pi_mode, pi_files, pi_type, pi_result>>
    /\ PiOnly

\* picam2.capture_file(filepath): writes the file, raises, or never returns
PiCapture_CaptureFile(t) ==
    /\ pi_pc[t] = "p_capture"
    /\ \E outcome \in {"ok", "raise", "hang"} :
         IF outcome = "ok"
         THEN /\ pi_running
              /\ pi_files' = [pi_files EXCEPT ![pi_type[t]] = @ \cup {pi_photo_num[t]}]
              /\ pi_pc' = [pi_pc EXCEPT ![t] =
                    IF pi_type[t] = "normal" THEN "p_done" ELSE "p_back_stop"]
              /\ pi_result' = pi_result
         ELSE /\ pi_files' = pi_files
              /\ pi_pc' = [pi_pc EXCEPT ![t] =
                    IF outcome = "hang" THEN "p_hung" ELSE "p_return"]
              /\ pi_result' = [pi_result EXCEPT ![t] =
                    IF outcome = "hang" THEN @ ELSE "error"]
    /\ UNCHANGED <<camera_lock, pi_running, pi_mode, pi_type, pi_photo_num>>
    /\ PiOnly

PiCapture_StopBack(t) == PiCapture_Stop(t, "p_back_stop", "p_back_cfg")

PiCapture_ConfigureBack(t) == PiCapture_Configure(t, "p_back_cfg", "normal", "p_back_start")

PiCapture_StartBack(t) == PiCapture_Start(t, "p_back_start", "p_done")

\* the success response is built
PiCapture_Done(t) ==
    /\ pi_pc[t] = "p_done"
    /\ pi_result' = [pi_result EXCEPT ![t] = "success"]
    /\ pi_pc' = [pi_pc EXCEPT ![t] = "p_return"]
    /\ UNCHANGED <<camera_lock, pi_running, pi_mode, pi_files, pi_type, pi_photo_num>>
    /\ PiOnly

\* return jsonify(...): leaving the with block releases camera_lock
PiCapture_Return(t) ==
    /\ pi_pc[t] = "p_return"
    /\ camera_lock' = None
    /\ pi_pc' = [pi_pc EXCEPT ![t] = "p_idle"]
    /\ pi_type' = [pi_type EXCEPT ![t] = "none"]
    /\ pi_photo_num' = [pi_photo_num EXCEPT ![t] = 0]
    /\ pi_result' = [pi_result EXCEPT ![t] = "none"]
    /\ UNCHANGED <<pi_running, pi_mode, pi_files>>
    /\ PiOnly

PiClientStep(t) ==
    \/ PiCapture_Begin(t)
    \/ PiCapture_Acquire(t)
    \/ PiCapture_StopFirst(t)
    \/ PiCapture_ConfigureMode(t)
    \/ PiCapture_StartMode(t)
    \/ PiCapture_Number(t)
    \/ PiCapture_CaptureFile(t)
    \/ PiCapture_StopBack(t)
    \/ PiCapture_ConfigureBack(t)
    \/ PiCapture_StartBack(t)
    \/ PiCapture_Done(t)
    \/ PiCapture_Return(t)

PiNext == \E t \in Clients : PiClientStep(t)

(***************************************************************************)
(* Part V: examples/basic_camera.py                                        *)
(* The /fast_capture route calls ultra_fast_dng_capture on the thread of   *)
(* the request; the DNG reaches photos/dng from a writer thread.           *)
(***************************************************************************)
\* get_next_photo_number(), reading photos/dng
BcNextPhotoNumber ==
    IF bc_dng = {} THEN 1 ELSE MaxOf({NameNumber(n) : n \in bc_dng}) + 1

\* the state when init_camera has returned True, photos/dng holding `dirs`
BcInitFrom(dirs) ==
    /\ bc_dng \in dirs
    /\ bc_writers = {}
    /\ bc_pc = [t \in Clients |-> "u_idle"]
    /\ bc_photo_num = [t \in Clients |-> 0]
    /\ bc_request = [t \in Clients |-> "none"]
    /\ bc_result = [t \in Clients |-> "none"]

\* the frame of a step of request t that moves on to `to`
BcMoves(t, to) ==
    /\ bc_pc' = [bc_pc EXCEPT ![t] = to]
    /\ UNCHANGED <<bc_dng, bc_photo_num>>
    /\ BcOnly

\* the frame of a step of request t that ends the call with an error dict
BcFails(t) ==
    /\ bc_result' = [bc_result EXCEPT ![t] = "error"]
    /\ BcMoves(t, "u_return")

\* POST /fast_capture arrives
UltraFast_Begin(t) ==
    /\ bc_pc[t] = "u_idle"
    /\ BcNextPhotoNumber <= MaxCounter
    /\ BcMoves(t, "u_number")
    /\ UNCHANGED <<bc_writers, bc_request, bc_result>>

\* photo_num = get_next_photo_number()
UltraFast_Number(t) ==
    /\ bc_pc[t] = "u_number"
    /\ bc_photo_num' = [bc_photo_num EXCEPT ![t] = BcNextPhotoNumber]
    /\ bc_pc' = [bc_pc EXCEPT ![t] = "u_request"]
    /\ UNCHANGED <<bc_dng, bc_writers, bc_request, bc_result>>
    /\ BcOnly

\* r = picam2.capture_request(); None and an exception end the call
UltraFast_Request(t) ==
    /\ bc_pc[t] = "u_request"
    /\ \E outcome \in {"ok", "none", "raise"} :
         IF outcome = "ok"
         THEN /\ bc_request' = [bc_request EXCEPT ![t] = "held"]
              /\ bc_result' = bc_result
              /\ BcMoves(t, "u_save")
         ELSE /\ bc_request' = bc_request
              /\ BcFails(t)
    /\ UNCHANGED bc_writers

\* r.save_dng(tmp); an exception goes to `except Exception`, which returns
UltraFast_SaveDng(t) ==
    /\ bc_pc[t] = "u_save"
    /\ \E outcome \in {"ok", "raise"} :
         IF outcome = "ok"
         THEN /\ bc_result' = bc_result
              /\ BcMoves(t, "u_release")
         ELSE BcFails(t)
    /\ UNCHANGED <<bc_writers, bc_request>>

\* r.release()
UltraFast_Release(t) ==
    /\ bc_pc[t] = "u_release"
    /\ bc_request' = [bc_request EXCEPT ![t] = "released"]
    /\ BcMoves(t, "u_writer")
    /\ UNCHANGED <<bc_writers, bc_result>>

\* the temp file is read back and the writer thread is started
UltraFast_StartWriter(t) ==
    /\ bc_pc[t] = "u_writer"
    /\ \E outcome \in {"ok", "raise"} :
         IF outcome = "ok"
         THEN /\ bc_writers' = bc_writers \cup {bc_photo_num[t]}
              /\ bc_result' = [bc_result EXCEPT ![t] = "success"]
              /\ BcMoves(t, "u_return")
         ELSE /\ bc_writers' = bc_writers
              /\ BcFails(t)
    /\ UNCHANGED bc_request

\* return jsonify(result)
UltraFast_Return(t) ==
    /\ bc_pc[t] = "u_return"
    /\ bc_pc' = [bc_pc EXCEPT ![t] = "u_idle"]
    /\ bc_photo_num' = [bc_photo_num EXCEPT ![t] = 0]
    /\ bc_request' = [bc_request EXCEPT ![t] = "none"]
    /\ bc_result' = [bc_result EXCEPT ![t] = "none"]
    /\ UNCHANGED <<bc_dng, bc_writers>>
    /\ BcOnly

\* writer_thread_func: a writer thread writes its file into photos/dng
WriterThread_Write ==
    \E n \in bc_writers :
        /\ bc_dng' = bc_dng \cup {n}
        /\ bc_writers' = bc_writers \ {n}
        /\ UNCHANGED <<bc_pc, bc_photo_num, bc_request, bc_result>>
        /\ BcOnly

BcClientStep(t) ==
    \/ UltraFast_Begin(t)
    \/ UltraFast_Number(t)
    \/ UltraFast_Request(t)
    \/ UltraFast_SaveDng(t)
    \/ UltraFast_Release(t)
    \/ UltraFast_StartWriter(t)
    \/ UltraFast_Return(t)

BcNext == (\E t \in Clients : BcClientStep(t)) \/ WriterThread_Write

\* the requests arrive one after the other: a call starts and runs only while
\* no other call is in progress; the writer threads run as they will
BcSerialNext ==
    \/ \E t \in Clients :
         /\ \A u \in Clients \ {t} : bc_pc[u] = "u_idle"
         /\ BcClientStep(t)
    \/ WriterThread_Write

(***************************************************************************)
(* Specifications                                                          *)
(***************************************************************************)
\* only one of the programs runs; the state of the others stays as it is
\* when they are loaded with empty photo folders
OthersOfLed ==
    VfInitFrom({{}}) /\ RawInitFrom({{}}) /\ PiInitFrom({{}}) /\ BcInitFrom({{}})
OthersOfVf ==
    LedInitFrom({{}}) /\ RawInitFrom({{}}) /\ PiInitFrom({{}}) /\ BcInitFrom({{}})
OthersOfRaw ==
    LedInitFrom({{}}) /\ VfInitFrom({{}}) /\ PiInitFrom({{}}) /\ BcInitFrom({{}})
OthersOfPi ==
    LedInitFrom({{}}) /\ VfInitFrom({{}}) /\ RawInitFrom({{}}) /\ BcInitFrom({{}})
OthersOfBc ==
    LedInitFrom({{}}) /\ VfInitFrom({{}}) /\ RawInitFrom({{}}) /\ PiInitFrom({{}})

\* dng_camera_led.py, requests served concurrently, from a fresh installation
SpecLedInit == LedInitFrom({{}}) /\ OthersOfLed
SpecLed == SpecLedInit /\ [][LedNext]_vars

\* dng_camera_led.py, one request at a time, from any folder content
SpecLedSerialInit == LedInitFrom(SUBSET (1..MaxInitFile)) /\ OthersOfLed
SpecLedSerial == SpecLedSerialInit /\ [][LedSerialNext]_vars

\* camera_viewfinder.py: the main loop and the shutter handler
SpecVfInit == VfInitFrom(SUBSET (1..MaxInitFile)) /\ OthersOfVf
SpecVf == SpecVfInit /\ [][VfNext]_vars

\* the viewfinder started on a folder it numbered itself: PICAM_001..PICAM_k
SpecVfGalleryInit ==
    VfInitFrom({1..k : k \in 0..MaxInitFile}) /\ OthersOfVf
SpecVfGallery == SpecVfGalleryInit /\ [][VfGalleryNext]_vars

\* Pi_cam_raw.py: concurrent /fast_capture requests
SpecRawInit == RawInitFrom(SUBSET (1..MaxInitFile)) /\ OthersOfRaw
SpecRaw == SpecRawInit /\ [][RawNext]_vars

\* Pi_cam_raw.py: fast_capture_photo called from the request threads, the
\* processing thread and the shutdown
SpecRawQueueInit == RawFoldersFrom({{}}) /\ RawQueueInitFrom(BOOLEAN) /\ OthersOfRaw
SpecRawQueue == SpecRawQueueInit /\ [][RawQueueNext]_vars

\* Pi_cam_raw.py with failing calls and a processing thread that is scheduled
\* for as long as the process lives
SpecRawQueueFairInit == RawFoldersFrom({{}}) /\ RawQueueInitFrom({TRUE}) /\ OthersOfRaw
SpecRawQueueFair ==
    /\ SpecRawQueueFairInit
    /\ [][RawQueueNext]_vars
    /\ WF_vars(ConsumerStep)

\* Pi_cam_raw.py: fast_capture_photo and the processing thread, with photo
\* files added to and removed from photos/jpg meanwhile
SpecRawFilesInit == RawFoldersFrom({{}}) /\ RawQueueInitFrom({TRUE}) /\ OthersOfRaw
SpecRawFiles == SpecRawFilesInit /\ [][RawFilesNext]_vars

\* working_code/Pi_cam.py: concurrent capture requests; a request thread that
\* can take a step is scheduled eventually
SpecPiInit == PiInitFrom(SUBSET (1..MaxInitFile)) /\ OthersOfPi
SpecPi == /\ SpecPiInit
          /\ [][PiNext]_vars
          /\ \A t \in Clients : WF_vars(PiClientStep(t))

\* examples/basic_camera.py: concurrent /fast_capture requests and the
\* writer threads they start
SpecBcInit == BcInitFrom(SUBSET (1..MaxInitFile)) /\ OthersOfBc
SpecBc == SpecBcInit /\ [][BcNext]_vars

SpecBcSerialInit == BcInitFrom(SUBSET (1..MaxInitFile)) /\ OthersOfBc
SpecBcSerial == SpecBcSerialInit /\ [][BcSerialNext]_vars

(***************************************************************************)
(* Properties of Part I                                                    *)
(***************************************************************************)
\* positions of capture_single_dng after the `capturing` guard
PastGuard == {"set_cap", "spawn", "wait_start", "join", "cl_stop", "cl_close",
              "chk_file", "finally"}

\* C2: for any interleaving of concurrent capture requests, at most one
\* invocation of capture_single_dng is past the `capturing` guard at a time.
C2_AtMostOnePastGuard ==
    Cardinality({t \in Clients : pc[t] \in PastGuard}) <= 1

\* C3: a supervised capture whose worker has not raised 'started' when the start
\* timeout ends returns the FailedToStart result; when that invocation returns,
\* `capturing` is clear; and a request that arrives later (one request at a time)
\* finds the guard clear, so it is not rejected as busy.
C3_FailedToStartReleasesGuard ==
    [][\A t \in Clients :
        /\ (pc[t] = "wait_start" /\ ~Started(cur[t]) /\ pc'[t] # "wait_start")
              => (result'[t] = ResFailedToStart /\ pc'[t] = "finally")
        /\ (pc[t] = "finally" /\ result[t] = ResFailedToStart /\ pc'[t] # "finally")
              => ~capturing'
        /\ (pc'[t] \in {"route_chk", "chk_cap"}) => ~capturing'
      ]_vars

\* C3 witness: an earlier capture failed to start (its worker is still waiting to
\* run) and a later request has passed the `capturing` guard.
C3_Witness ==
    \E t \in Clients : \E w \in Workers :
        pc[t] = "set_cap" /\ wstate[w] = "spawned"

\* C4: after a capture returned the TimedOut (restart required) result and the
\* route's initialize call returned True, the session is initialized: the flag is
\* set and the handle is present and streaming.
C4_RecoveryAfterTimeout ==
    \A t \in Clients :
        (pc[t] = "route_ret" /\ result[t] = ResTimedOut /\ restart[t] = "camera_restarted")
            => (initialized /\ picam2 # None /\ hstate[picam2] = "running")

\* C5: whenever capture_single_dng returns the 'Capture timed out. Camera has been
\* reset.' result, the handle it used is closed and discarded and the session is
\* marked uninitialized, also when a cleanup step failed.
C5_TimedOutMeansReset ==
    \A t \in Clients :
        (pc[t] \in {"finally", "route_after"} /\ result[t] = ResTimedOut)
            => /\ ~initialized
               /\ picam2 = None
               /\ (hnd[t] # None => hstate[hnd[t]] = "closed")

\* C6: with one request at a time, the number given to a successful capture is
\* the current counter value, the counter then advances by exactly one, successive
\* successful numbers of a session are consecutive, and nothing else moves the
\* counter (a failed capture consumes no number) except a (re)initialisation.
C6_SerialNumbering ==
    [][/\ (Len(assigned') = Len(assigned) + 1 /\ Len(assigned) > 0)
            => assigned'[Len(assigned')] = assigned[Len(assigned)] + 1
       /\ (photo_counter' # photo_counter)
            => \/ (~initialized /\ initialized' /\ assigned' = <<>>)
               \/ (/\ assigned' = Append(assigned, photo_counter)
                   /\ photo_counter' = photo_counter + 1)
       /\ (assigned' # assigned)
            => \/ (~initialized /\ initialized' /\ assigned' = <<>>)
               \/ photo_counter' = photo_counter + 1
      ]_vars

\* C6 witness: the second successful capture of a session has returned.
C6_Witness ==
    \E t \in Clients :
        /\ pc[t] = "route_ret" /\ result[t].success
        /\ Len(assigned) >= 2 /\ result[t].photo_number = assigned[Len(assigned)]

\* C8: when an initialisation completes, the next number is max(existing) + 1,
\* so it is not the number of a file that is already on disk.
C8_NextIsMaxPlusOne ==
    [][(~initialized /\ initialized')
          => (photo_counter' = MaxOf(dngFiles') + 1 /\ photo_counter' \notin dngFiles')]_vars

\* C9: while `capturing` is true, no step of initialize_camera or of the emergency
\* cleanup opens, stops or closes a camera handle.
C9_NoReconfigureWhileCapturing ==
    [][capturing =>
         ~(\E p \in Procs : /\ pc[p] \in {"init_open", "em_stop", "em_close"}
                            /\ pc'[p] # pc[p]
                            /\ hstate' # hstate)]_vars

\* positions of capture_single_dng up to the end of the start timeout
UpToStartWait == {"chk_init", "chk_cap", "set_cap", "spawn", "wait_start"}

\* C12: a capture that returns FailedToStart has left the device alone: no step
\* taken up to that return changes the handle, its stream state, `initialized`
\* or the photo counter, and at the return they are the values the call read.
C12_FailedToStartLeavesDevice ==
    [][\A t \in Clients :
         /\ (pc[t] \in UpToStartWait)
              => UNCHANGED <<picam2, initialized, photo_counter, hstate>>
         /\ (pc[t] = "wait_start" /\ pc'[t] = "finally")
              => /\ result'[t] = ResFailedToStart
                 /\ initialized' /\ picam2' = hnd[t] /\ picam2' # None
                 /\ photo_counter' = photo_num[t]]_vars

\* a capture has just returned FailedToStart
C12_Witness ==
    \E t \in Clients : pc[t] = "finally" /\ result[t] = ResFailedToStart

\* the two fatal outcomes of capture_single_dng
FatalErrors == {ResFailedToStart.error, ResTimedOut.error}

\* C13: a result that reports FailedToStart or TimedOut carries restart_required.
C13_FatalResultsFlagged ==
    \A t \in Clients : result[t].error \in FatalErrors => result[t].restart_required

\* C14: a capture request whose result carries restart_required returns after
\* exactly one call of initialize_camera by the route; any other result returns
\* after none, and the route never starts a second one.
C14_ReinitExactlyOnce ==
    [][\A t \in Clients :
         /\ (req[t] = "capture" /\ pc[t] = "route_ret" /\ pc'[t] = "idle")
              => (result[t].restart_required <=> restart[t] # "none")
         /\ (req[t] = "capture" /\ pc[t] # "init_chk" /\ pc'[t] = "init_chk")
              => (pc[t] = "route_after" /\ result[t].restart_required
                  /\ restart[t] = "none")
         /\ (restart'[t] # restart[t] /\ restart[t] # "none")
              => (pc[t] = "route_ret" /\ restart'[t] = "none")]_vars

\* a restart-required result is about to be returned after the reinitialize
C14_Witness ==
    \E t \in Clients : /\ pc[t] = "route_ret"
                        /\ result[t].restart_required
                        /\ restart[t] # "none"

\* C28: when capture_single_dng has returned to its route, the request holds
\* a result: a dict whose success flag is set exactly when its error text is empty,
\* whichever path the call took.
C28_EveryPathReturnsResult ==
    \A t \in Clients :
        (pc[t] = "route_after" /\ req[t] = "capture")
           => /\ result[t] # NoResult
              /\ result[t].success <=> (result[t].error = "")

\* a call in which an exception was raised has returned its error result
C28_Witness ==
    \E t \in Clients : pc[t] = "route_after" /\ result[t] = ResException

\* C29: capture_single_dng takes the forced-reset path only when its worker
\* thread is still running after the join; a worker that has ended, with or
\* without an error, never leads to the reset.
C29_ResetOnlyWhenWorkerRunning ==
    [][\A t \in Clients :
         (pc[t] = "join" /\ pc'[t] = "cl_stop") => IsAlive(cur[t])]_vars

\* C30: no two worker threads that are still running were given the same
\* camera object, and while the capturing flag is clear no worker thread is
\* still running.
C30_OneWorkerPerHandle ==
    /\ \A w1, w2 \in Workers :
         (w1 # w2 /\ IsAlive(w1) /\ IsAlive(w2) /\ wh[w1] # None) => wh[w1] # wh[w2]
    /\ ~capturing => \A w \in Workers : ~IsAlive(w)

C35_InitializedMeansOpenHandle ==
    [][ /\ initialized' => (picam2' # None /\ hstate'[picam2'] # "closed")
        /\ \A t \in Clients :
              (pc[t] = "spawn" /\ pc'[t] # "spawn")
                 => (hnd'[t] # None /\ hstate'[hnd'[t]] # "closed") ]_vars

(***************************************************************************)
(* Properties of Part II                                                   *)
(***************************************************************************)
\* C7: photos_taken changes only by the handler's own increment, which follows
\* the write of the file; and a handler that wrote its file leaves with the
\* counter advanced to that file's number, whichever path it took after the write.
C7_CountedOncePerWrittenFile ==
    [][/\ (photos_taken' # photos_taken)
            => (pcS = "sh_count" /\ s_wrote /\ photos_taken' = photos_taken + 1)
       /\ (pcS = "sh_finally" /\ pcS' = "sh_idle" /\ s_wrote)
            => photos_taken' = s_photo_num]_vars

\* C10: while self.capturing is true the main loop makes no call on the camera:
\* it performs no capture_array, capture_metadata or set_controls.
C10_LoopPausedWhileCapturing ==
    [][(vf_capturing /\ pcL \in LoopCameraLocs) => pcL' = pcL]_vars

\* C23: whenever the shutter handler ends with the camera back in the
\* preview and running, the camera has the session's analog gain and its
\* focus is locked exactly when the session's focus lock is set, whichever
\* path the handler took and whatever the focus button did meanwhile.
C23_RoundTripRestoresControls ==
    [][(pcS = "sh_finally" /\ pcS' = "sh_idle" /\ cam_mode' = "preview" /\ cam_running')
          => /\ dev_gain' = current_gain'
             /\ (dev_afmode' = 0) <=> focus_locked']_vars

\* C24: in a mode switch of the shutter handler the configuration is applied
\* only to a stopped camera, the settings that survive the switch are sent
\* after the restart, to a running camera, and a switch that completed leaves
\* the camera running.
C24_SwitchStepsInOrder ==
    [][ /\ (pcS \in {"sh_cfg1", "sh_cfg2"} /\ pcS' # pcS) => ~cam_running
        /\ (pcS = "sh_controls" /\ pcS' # pcS) => cam_running
        /\ (pcS = "sh_count" /\ pcS' # pcS) => cam_running' ]_vars

\* C32: a shutter capture never chooses the filename of a stored photo: after
\* any sequence of captures (successful or failed) and deletions (gallery of
\* the display or web gallery) the number taken for the next capture is not
\* the number of a photo in the folder
C32_NextNameIsFresh ==
    [][Shutter_Name => (s_photo_num' \notin jpgFiles)]_vars

\* C37: whenever the viewfinder is in gallery mode the gallery list is not
\* empty and the gallery index is a valid index into it, after any sequence of
\* open, previous, next, delete-confirm, delete and exit events
C37_GalleryIndexValid ==
    gallery_mode =>
        /\ gallery_photos # <<>>
        /\ 0 <= gallery_index
        /\ gallery_index < Len(gallery_photos)

\* the gallery is open on the last photo of a list that lost its middle photo
C37_Witness ==
    /\ gallery_mode
    /\ gallery_photos = <<1, 3>>
    /\ gallery_index = 1
    /\ jpgFiles = {1, 3}
    /\ ~gallery_delete_confirm

(***************************************************************************)
(* Properties of Part III                                                  *)
(***************************************************************************)
\* C1: the camera is used by one thread at a time, as a lock shared by all
\* camera calls would enforce: no two requests hold a capture request at once.
C1_OneThreadOnCamera ==
    Cardinality({t \in Clients : raw_pc[t] \in RequestHeld}) <= 1

(***************************************************************************)
(* Properties of Part III, continued                                       *)
(***************************************************************************)
\* C15: the number of items waiting in the queue never exceeds the capacity.
C15_QueueBounded == QueuedItems <= QueueCapacity

\* positions of fast_capture_photo from the put to the return
FromPut == {"fq_put", "fq_release", "fq_result", "fq_return"}

\* C16: from the put on, the capture path can always take its next step,
\* whatever the length of the queue and whatever the processing thread does,
\* and once the call has returned the thread no longer holds camera_lock.
C16_EnqueueNeverBlocks ==
    \A t \in Clients :
        /\ (RawRunning /\ fq_pc[t] \in FromPut) => ENABLED ProducerStep(t)
        /\ fq_pc[t] = "fq_idle" => raw_camera_lock # t

\* a capture is at its put while the queue already holds QueueCapacity items
C16_Witness ==
    \E t \in Clients : fq_pc[t] = "fq_put" /\ QueuedItems >= QueueCapacity

\* C17: when QueueCapacity + 2 captures have been made back-to-back and the
\* processing thread has taken none of them, exactly QueueCapacity items were
\* accepted into the queue (and the other two rejected).
C17_BurstAcceptsCapacity ==
    (/\ Cardinality(raw_jpg) = QueueCapacity + 2
     /\ \A t \in Clients : fq_pc[t] = "fq_idle"
     /\ proc_log = <<>>)
      => (Len(Accepted) = QueueCapacity /\ QueuedItems = QueueCapacity)

\* C18: the processing thread takes the items in the order they were put in
\* the queue, and every file it writes belongs to the item it took last, so
\* the processing of an item is over before that of the next one begins.
C18_ProcessedInEnqueueOrder ==
    [][/\ Len(proc_log') <= Len(Accepted')
       /\ SubSeq(Accepted', 1, Len(proc_log')) = proc_log'
       /\ (<<raw_npy, raw_npz, raw_processed>>' # <<raw_npy, raw_npz, raw_processed>>)
            => /\ proc_log' = proc_log /\ proc_log # <<>>
               /\ (raw_npy' \cup raw_npz' \cup raw_processed')
                     \ (raw_npy \cup raw_npz \cup raw_processed)
                    \subseteq {proc_log[Len(proc_log)]}]_vars

\* the processing thread is working on the second item it took
C18_Witness ==
    /\ Len(proc_log) >= 2
    /\ cons_pc = "c_custom"
    /\ cons_item = proc_log[2]
    /\ proc_log[1] \in raw_npy

\* C19: when the processing thread has stopped after the shutdown signal was
\* put, every item put before the signal has been processed.
C19_ItemsBeforeSentinelProcessed ==
    (ConsumerStopped /\ Sentinel \in {enq_log[i] : i \in 1..Len(enq_log)})
      => BeforeSentinel \subseteq Finished

\* C20: when the shutdown is complete, every item still in the queue has its
\* raw backup (photos/raw/photo<n>.npy) on disk.
C20_UnprocessedItemsBackedUp ==
    m_pc = "m_exited" => ItemsOf(raw_queue) \subseteq raw_npy

\* C21: an encoded file exists only for an item whose raw backup was written
\* before it, and a failed raw-backup write is reported under a kind that no
\* failure of another step is reported under.
C21_BackupFailureHasOwnKind ==
    /\ (raw_dng \cup raw_npz) \subseteq raw_npy
    /\ \A e1, e2 \in proc_errors :
         (e1.failed = "backup" /\ e2.failed # "backup") => e1.kind # e2.kind

\* C22: once the raw backup of an item is written the encode step is next,
\* and when the encode step of an item is over the item has exactly one of
\* photo<n>.dng and photo<n>.npz, or none and a reported failure of the
\* fallback.
C22_FallbackOnEncoderFailure ==
    [][ /\ (cons_pc = "c_npy" /\ cons_item \in raw_npy' /\ cons_pc' # "c_killed")
           => cons_pc' = "c_dng"
        /\ (cons_pc = "c_dng" /\ cons_pc' \notin {"c_dng", "c_killed"})
           => IF ProcessingError(cons_item, "fallback") \in proc_errors'
              THEN cons_item \notin (raw_dng' \cup raw_npz')
              ELSE (cons_item \in raw_dng') # (cons_item \in raw_npz') ]_vars

\* the primary encoder failed for an item and its fallback file was written
C22_Witness ==
    \E n \in raw_npz : n \in raw_npy /\ n \notin raw_dng

\* C27: the number the next capture will be given does not change when a
\* file is added to or removed from the photo folder from outside.
C27_NumberingIgnoresFolderChanges ==
    [][(raw_jpg' # raw_jpg /\ fq_pc' = fq_pc)
          => get_next_photo_number' = get_next_photo_number]_vars

EnqueuedAfterFailure(n) ==
    \E i \in 1..Len(enq_log) :
        /\ enq_log[i] = n
        /\ \A k \in 1..i : enq_log[k] # Sentinel
        /\ \E j \in 1..(i - 1) : \E e \in proc_errors : e.photo_num = enq_log[j]

\* C36: a failure while processing one item does not stop the consumer: the
\* step that reports the failure goes back to the loop test, and every item
\* put in the queue after the failed one and before the shutdown signal is
\* eventually processed
C36_FailureDoesNotStopConsumer ==
    /\ [][(proc_errors' # proc_errors) => (cons_pc' = "c_top")]_vars
    /\ \A n \in 1..MaxFaultyItems :
          EnqueuedAfterFailure(n) ~> (n \in Finished)

(***************************************************************************)
(* Properties of Part IV                                                   *)
(***************************************************************************)
\* C11: whenever a request holds camera_lock it eventually releases it, also
\* when the capture call it makes under the lock never returns.
C11_LockEventuallyReleased ==
    \A t \in Clients : (camera_lock = t) ~> (camera_lock # t)

\* C25: when a step of a mode switch raises, the request that made it ends
\* with the stream running again (Pi_cam.py has no flag that marks the session
\* uninitialized, so a failed replay cannot be the excuse).
C25_FailedSwitchReplayed ==
    [][\A t \in Clients :
         (pi_pc[t] # "p_return" /\ pi_pc'[t] = "p_return" /\ pi_result'[t] = "error")
            => pi_running']_vars

(***************************************************************************)
(* Properties of Part V                                                    *)
(***************************************************************************)
\* C26: a call that acquired a capture request has released it when it
\* returns, whichever way it returns (success, failed save, failed start of
\* the writer).
C26_RequestReleasedOnEveryPath ==
    \A t \in Clients : bc_pc[t] = "u_return" => bc_request[t] # "held"

\* C33: two successive successful captures of the ultra-fast path are never
\* given the same photo number, however the writer thread of the first
\* interleaves with the directory scan of the second: the number of a capture
\* that succeeds is neither waiting in a writer thread nor written by one
C33_SuccessiveNumbersDiffer ==
    [][\A t \in Clients :
          (bc_result[t] # "success" /\ bc_result'[t] = "success")
             => bc_photo_num[t] \notin (bc_writers \cup bc_dng)]_vars

Spec == SpecLed
====
